---- MODULE Spec2Model ----
(***************************************************************************)
(* A model of the videoask_handler transcription pipeline: the /webhook    *)
(* handler (form_response events and provider callbacks), the manual       *)
(* submission endpoint with its synchronous wait loop, the transcription   *)
(* provider as the environment, and the spreadsheet-backed result store.   *)
(*                                                                         *)
(* Python values are modelled as follows.  A dict is a record; a missing   *)
(* key or a JSON null is the string None.  A str that the code inspects    *)
(* character by character (transcript text) is a sequence of one-character *)
(* strings.  An exception is a record field exc # NoExc on a result.       *)
(* A confidence read from JSON is written in hundredths; the floats the    *)
(* scorer computes from confidences are IEEE-754 doubles.                  *)
(***************************************************************************)
EXTENDS Integers, Sequences, FiniteSets, TLC

VARIABLES
    cfg,        \* module-level configuration read by rev_ai.py
    jobs,       \* the provider's job registry, indexed by job id
    sheet,      \* the spreadsheet: column A length, column E, written cells
    req,        \* the request in flight that is no delivery to /webhook
    hook,       \* the delivery to /webhook in flight
    stored,     \* history: per job and completion path, the cells stored
    last        \* history: what the most recent handler invocation did

vars == <<cfg, jobs, sheet, req, hook, stored, last>>

None == "None"

\* Exceptions: the class that matters to the except clauses, str(e), and the
\* provider's failure detail when the message embeds one.
NoExc == [type |-> "none", msg |-> "", detail |-> ""]
Exc(type, msg) == [type |-> type, msg |-> msg, detail |-> ""]
ExcD(type, msg, detail) == [type |-> type, msg |-> msg, detail |-> detail]

-----------------------------------------------------------------------------
(* Bounds of the model.                                                    *)

MaxJobs == 1
MaxAnswers == 2

-----------------------------------------------------------------------------
(* Small helpers on sequences.                                             *)

RECURSIVE SumSeq(_)
SumSeq(s) == IF s = <<>> THEN 0 ELSE Head(s) + SumSeq(Tail(s))

RECURSIVE Flatten(_)
Flatten(ss) == IF ss = <<>> THEN <<>> ELSE Head(ss) \o Flatten(Tail(ss))

Min(a, b) == IF a < b THEN a ELSE b
Max(a, b) == IF a > b THEN a ELSE b

\* Python s[:n] and s[n:] for n >= 0 (slices never raise).
Take(s, n) == SubSeq(s, 1, Min(n, Len(s)))
Drop(s, n) == SubSeq(s, Min(n, Len(s)) + 1, Len(s))

-----------------------------------------------------------------------------
(* Text.  A str is a sequence of one-character strings.                    *)

LowerChars == {"h", "i", "o", "k"}
UpperChars == {"H", "I", "O", "K"}
TerminalPunct == {".", "!", "?"}
PunctChars == TerminalPunct \cup {","}

\* str.upper() and str.lower() on one character.
Upper(c) ==
    CASE c = "h" -> "H" [] c = "i" -> "I" [] c = "o" -> "O" [] c = "k" -> "K"
      [] OTHER -> c
Lower(c) ==
    CASE c = "H" -> "h" [] c = "I" -> "i" [] c = "O" -> "o" [] c = "K" -> "k"
      [] OTHER -> c
IsLower(c) == c \in LowerChars
IsSpace(c) == c \in {" ", "\n"}

LowerText(t) == [i \in 1..Len(t) |-> Lower(t[i])]

\* str.strip()
Strip(t) ==
    LET keep == {i \in 1..Len(t) : ~IsSpace(t[i])}
    IN  IF keep = {} THEN <<>>
        ELSE SubSeq(t, CHOOSE i \in keep : \A j \in keep : i <= j,
                       CHOOSE i \in keep : \A j \in keep : i >= j)

\* ' '.join(parts) and '\n\n'.join(parts)
RECURSIVE Join(_, _)
Join(parts, sep) ==
    IF parts = <<>> THEN <<>>
    ELSE IF Len(parts) = 1 THEN parts[1]
    ELSE parts[1] \o sep \o Join(Tail(parts), sep)

\* doc.sents of the language model: a sentence runs from the first non-blank
\* character to the next terminal punctuation mark that is followed by a blank
\* or by the end of the text; start_char is its 0-based offset, text carries
\* no surrounding blanks.
RECURSIVE SentsFrom(_, _)
SentsFrom(t, from) ==
    LET starts == {i \in from..Len(t) : ~IsSpace(t[i])}
    IN  IF starts = {} THEN <<>>
        ELSE
          LET s == CHOOSE i \in starts : \A j \in starts : i <= j
              ends == {i \in s..Len(t) :
                          /\ t[i] \in TerminalPunct
                          /\ (i = Len(t) \/ IsSpace(t[i + 1]))}
              lastInk == CHOOSE i \in starts : \A j \in starts : i >= j
              e == IF ends = {} THEN lastInk
                   ELSE CHOOSE i \in ends : \A j \in ends : i <= j
          IN  <<[start_char |-> s - 1, text |-> SubSeq(t, s, e)]>>
                  \o SentsFrom(t, e + 1)

Sents(t) == SentsFrom(t, 1)

\* The tokens of the language model.  The tokenizer cuts the text into runs
\* of whitespace and runs of other characters.  In a run of other characters
\* a run of letters is a word and every punctuation mark a token of its own.
\* One blank that ends such a run only separates (it is the trailing
\* whitespace of the token before it); what is left of a run of whitespace,
\* and all of a run at the start of the text or one that starts with a line
\* break, is a token too.  A whitespace token is neither punctuation nor a
\* stop word.
RECURSIVE TokensFrom(_, _)
TokensFrom(t, from) ==
    IF from > Len(t) THEN <<>>
    ELSE
      LET blank == IsSpace(t[from])
          stops == {i \in (from + 1)..Len(t) :
                        IF blank THEN ~IsSpace(t[i])
                        ELSE IsSpace(t[i]) \/ t[i] \in PunctChars}
          e == IF ~blank /\ t[from] \in PunctChars THEN from
               ELSE IF stops = {} THEN Len(t)
               ELSE (CHOOSE i \in stops : \A j \in stops : i <= j) - 1
          next == IF ~blank /\ e < Len(t) /\ t[e + 1] = " "
                  THEN e + 2 ELSE e + 1
      IN  <<SubSeq(t, from, e)>> \o TokensFrom(t, next)

Tokens(t) == TokensFrom(t, 1)
IsPunct(tok) == Len(tok) = 1 /\ tok[1] \in PunctChars

-----------------------------------------------------------------------------
(* transcription/nlp.py                                                    *)

\* token.is_stop of the language model (case-insensitive).
StopWords == {<<"i">>}
IsStop(tok) == LowerText(tok) \in StopWords

\* The keys of word_freq in insertion order: the distinct lowercased tokens
\* that are no stop word, no punctuation and not empty once stripped, in
\* order of first occurrence.
RECURSIVE FreqKeys(_, _)
FreqKeys(toks, seen) ==
    IF toks = <<>> THEN <<>>
    ELSE LET w == LowerText(Head(toks))
         IN  IF \/ IsStop(Head(toks)) \/ IsPunct(Head(toks))
                \/ Strip(Head(toks)) = <<>> \/ w \in seen
             THEN FreqKeys(Tail(toks), seen)
             ELSE <<w>> \o FreqKeys(Tail(toks), seen \cup {w})

\* word_freq[w]: "if not token.is_stop and not token.is_punct and
\* token.text.strip()" keeps the whitespace tokens out of the table.
WordFreq(toks, w) ==
    Cardinality({i \in 1..Len(toks) :
        /\ ~IsStop(toks[i]) /\ ~IsPunct(toks[i]) /\ Strip(toks[i]) # <<>>
        /\ LowerText(toks[i]) = w})

\* sorted(word_freq.items(), key=count, reverse=True): a stable sort, so
\* equal counts keep their insertion order.
RECURSIVE SortByCount(_, _)
SortByCount(keys, toks) ==
    IF keys = <<>> THEN <<>>
    ELSE LET best == CHOOSE i \in 1..Len(keys) :
                        /\ \A j \in 1..Len(keys) :
                              WordFreq(toks, keys[j]) <= WordFreq(toks, keys[i])
                        /\ \A j \in 1..(i - 1) :
                              WordFreq(toks, keys[j]) < WordFreq(toks, keys[i])
             rest == [j \in 1..(Len(keys) - 1) |->
                        IF j < best THEN keys[j] ELSE keys[j + 1]]
         IN  <<<<keys[best], WordFreq(toks, keys[best])>>>>
                 \o SortByCount(rest, toks)

\* the repetition loop over frequent_words (count > word_count * 0.1)
RECURSIVE RepetitionIssues(_, _)
RepetitionIssues(freq, word_count) ==
    IF freq = <<>> THEN <<>>
    ELSE (IF 10 * Head(freq)[2] > word_count
          THEN <<<<"Frequent repetition of word", Head(freq)[1]>>>>
          ELSE <<>>)
         \o RepetitionIssues(Tail(freq), word_count)

analyze_transcript_content(text) ==
    LET report(sentence_count, word_count, frequent_words) ==
            [metrics |-> [sentence_count |-> sentence_count,
                          word_count |-> word_count],
             frequent_words |-> frequent_words,
             quality_issues |->
                 (IF sentence_count = 0
                  THEN <<<<"No complete sentences detected", <<>>>>>>
                  ELSE IF sentence_count = 1 /\ word_count > 50
                  THEN <<<<"Long text without proper sentence breaks", <<>>>>>>
                  ELSE <<>>)
                 \o (IF word_count < 10
                     THEN <<<<"Very short response", <<>>>>>>
                     ELSE <<>>)
                 \o RepetitionIssues(frequent_words, word_count)]
        \* word_count: every token that is not punctuation, the whitespace
        \* tokens included
        count(toks) ==
            report(Len(Sents(text)),
                   Cardinality({i \in 1..Len(toks) : ~IsPunct(toks[i])}),
                   Take(SortByCount(FreqKeys(toks, {}), toks), 10))
    IN  count(Tokens(text))

\* The capitalization loop: for the sentence at offset 0 the whole text is
\* replaced by that sentence with its first letter raised; for a later one
\* the character at its offset is replaced (Python slices clamp).
RECURSIVE FixCapitalization(_, _)
FixCapitalization(enhanced, sentences) ==
    IF sentences = <<>> THEN enhanced
    ELSE LET sent == Head(sentences)
             fixed ==
                 IF ~IsLower(sent.text[1]) THEN enhanced
                 ELSE IF sent.start_char = 0
                 THEN <<Upper(sent.text[1])>> \o Tail(sent.text)
                 ELSE Take(enhanced, sent.start_char)
                          \o <<Upper(sent.text[1])>>
                          \o Drop(enhanced, sent.start_char + 1)
         IN  FixCapitalization(fixed, Tail(sentences))

\* Groups of three sentence texts joined by one blank; the rest forms the
\* last paragraph.
RECURSIVE Paragraphs(_)
Paragraphs(sentences) ==
    IF sentences = <<>> THEN <<>>
    ELSE LET n == Min(3, Len(sentences))
             para == [i \in 1..n |-> Strip(sentences[i].text)]
         IN  <<Join(para, <<" ">>)>> \o Paragraphs(Drop(sentences, n))

\* An enhancement that takes only the full stop as sentence-ending.
enhance_transcript_fullstop(text) ==
    LET punctuate(sentences, capitalized, stripped, missing) ==
            [text |-> IF Len(sentences) > 5
                      THEN Join(Paragraphs(sentences), <<"\n", "\n">>)
                      ELSE IF missing THEN stripped \o <<".">>
                      ELSE capitalized,
             warnings |-> IF missing
                          THEN <<"Added missing sentence-ending punctuation">>
                          ELSE <<>>]
        strip(sentences, capitalized, stripped) ==
            punctuate(sentences, capitalized, stripped,
                      stripped # <<>> /\ stripped[Len(stripped)] # ".")
        capitalize(sentences, capitalized) ==
            strip(sentences, capitalized, Strip(capitalized))
        enhance(sentences) ==
            capitalize(sentences, FixCapitalization(text, sentences))
    IN  enhance(Sents(text))

enhance_transcript(text) ==
    LET punctuate(sentences, capitalized, stripped, missing) ==
            [text |-> IF Len(sentences) > 5
                      THEN Join(Paragraphs(sentences), <<"\n", "\n">>)
                      ELSE IF missing THEN stripped \o <<".">>
                      ELSE capitalized,
             warnings |-> IF missing
                          THEN <<"Added missing sentence-ending punctuation">>
                          ELSE <<>>]
        \* '' in '.!?' is True in Python: an empty text gets no full stop
        strip(sentences, capitalized, stripped) ==
            punctuate(sentences, capitalized, stripped,
                      stripped # <<>>
                          /\ stripped[Len(stripped)] \notin TerminalPunct)
        capitalize(sentences, capitalized) ==
            strip(sentences, capitalized, Strip(capitalized))
        enhance(sentences) ==
            capitalize(sentences, FixCapitalization(text, sentences))
    IN  enhance(Sents(text))

\* The score in tenths (1.0 is 10), clamped to [0, 1].
calculate_quality_score(analysis) ==
    LET m == analysis.metrics
        issues == Len(analysis.quality_issues)
        short == IF m.word_count < 20 THEN 2
                 ELSE IF m.word_count < 50 THEN 1 ELSE 0
        \* avg_words_per_sentence > 40
        structure == IF m.sentence_count = 0 THEN 3
                     ELSE IF m.word_count > 40 * m.sentence_count THEN 2 ELSE 0
    IN  Max(0, Min(10, 10 - issues - short - structure))

\* An analysis that passes the text through unchanged.
get_transcript_analysis_raw(text) ==
    [enhanced_text |-> text,
     original_text |-> text,
     enhancement_warnings |-> <<>>,
     content_analysis |-> analyze_transcript_content(text),
     quality_score |-> calculate_quality_score(analyze_transcript_content(text))]

get_transcript_analysis(text) ==
    LET report(analysis, e) ==
            [enhanced_text |-> e.text,
             original_text |-> text,
             enhancement_warnings |-> e.warnings,
             content_analysis |-> analysis,
             quality_score |-> calculate_quality_score(analysis)]
    IN  report(analyze_transcript_content(text), enhance_transcript(text))

-----------------------------------------------------------------------------
(* Media URLs.  urlparse(url).path.split('.') is tabulated for the URLs    *)
(* the model submits.                                                      *)

U_mp3 == "https://example.com/test-audio.mp3"
U_MP4 == "https://example.com/test-video.MP4?sig=a.b"
U_pdf == "https://example.com/doc.pdf"
U_noext == "https://example.com/noextension"
U_flac == "https://example.com/audio.flac"
U_txt == "https://example.com/file.txt"
U_aac == "https://example.com/voice.aac"
U_dirdot == "https://cdn.example.com/v1.2/audio"
U_query == "https://example.com/audio?file=a.mp3"
U_WAV == "https://example.com/a.b/clip.WAV#t=1.5"
U_dot == "https://example.com/audio."

Urls == {U_mp3, U_MP4, U_pdf, U_noext}

UrlPathParts(url) ==
    CASE url = U_mp3 -> <<"/test-audio", "mp3">>
      [] url = U_MP4 -> <<"/test-video", "MP4">>
      [] url = U_pdf -> <<"/doc", "pdf">>
      [] url = U_noext -> <<"/noextension">>
      [] url = U_flac -> <<"/audio", "flac">>
      [] url = U_txt -> <<"/file", "txt">>
      [] url = U_aac -> <<"/voice", "aac">>
      [] url = U_dirdot -> <<"/v1", "2/audio">>
      [] url = U_query -> <<"/audio">>
      [] url = U_WAV -> <<"/a", "b/clip", "WAV">>
      [] url = U_dot -> <<"/audio", "">>

LowerStr(str) ==
    CASE str = "MP4" -> "mp4" [] str = "WAV" -> "wav" [] OTHER -> str

SUPPORTED_AUDIO_FORMATS ==
    {"mp3", "mp4", "ogg", "wav", "pcm", "flac", "aac", "m4a", "wma", "aiff"}

-----------------------------------------------------------------------------
(* transcription/rev_ai.py: format validation                              *)

\* The extension as spelled in the URL.
get_file_extension_cased(url) ==
    LET suffix(parts) == IF Len(parts) > 1 THEN parts[Len(parts)] ELSE None
    IN  suffix(UrlPathParts(url))

get_file_extension(url) ==
    LET suffix(parts) ==
            IF Len(parts) > 1 THEN LowerStr(parts[Len(parts)]) ELSE None
    IN  suffix(UrlPathParts(url))

\* "if not ext" takes None and the empty extension of a path that ends in a
\* dot alike.
validate_media_format(media_url) ==
    LET checked(ext) ==
            IF ext \in {None, ""}
            THEN [valid |-> FALSE, message |-> "Could not determine file format",
                  ext |-> None]
            ELSE IF ext \notin SUPPORTED_AUDIO_FORMATS
            THEN [valid |-> FALSE, message |-> "Unsupported file format",
                  ext |-> ext]
            ELSE [valid |-> TRUE, message |-> "File format is supported",
                  ext |-> ext]
    IN  checked(get_file_extension(media_url))

-----------------------------------------------------------------------------
(* Transcripts as the provider returns them.  A confidence is a number of  *)
(* hundredths.                                                             *)

TextEl(value, confidence, ts) ==
    [type |-> "text", value |-> value, confidence |-> confidence, ts |-> ts]
PunctEl(value) ==
    [type |-> "punct", value |-> value, confidence |-> 0, ts |-> 0]

T_hello == <<[elements |-> <<TextEl(<<"h", "i">>, 95, 5),
                             PunctEl(<<",">>),
                             TextEl(<<"o", "k">>, 75, 10)>>]>>
T_fixed == <<[elements |-> <<TextEl(<<"O", "k", ".">>, 95, 5)>>]>>
T_blank == <<[elements |-> <<TextEl(<<>>, 95, 5)>>]>>
T_none == <<>>

Transcripts == {T_hello, T_fixed, T_blank, T_none}

\* transcript.get("monologues", [{}])[0].get("elements", [{}])[0].get("value", "")
\* The defaults apply to a missing key only: an empty list raises IndexError.
FirstElementValue(transcript) ==
    IF transcript = <<>> \/ transcript[1].elements = <<>>
    THEN [exc |-> Exc("IndexError", "list index out of range"), val |-> <<>>]
    ELSE [exc |-> NoExc, val |-> transcript[1].elements[1].value]

-----------------------------------------------------------------------------
(* transcription/media_quality.py                                          *)

\* mimetypes.guess_type on the path, by its (case-insensitive) extension.
GuessType(url) ==
    LET typed(ext) ==
            CASE ext = "mp3" -> <<"audio", "mpeg">>
              [] ext = "mp4" -> <<"video", "mp4">>
              [] ext = "aac" -> <<"audio", "aac">>
              [] ext = "pdf" -> <<"application", "pdf">>
              [] ext = "flac" -> <<"audio", "flac">>
              [] ext = "wav" -> <<"audio", "x-wav">>
              [] ext = "txt" -> <<"text", "plain">>
              [] OTHER -> <<None, None>>
    IN  typed(get_file_extension(url))

get_media_type(url) == GuessType(url)

\* kbps thresholds; for video the audio and video components.
AUDIO_QUALITY_THRESHOLDS ==
    [mp3 |-> [high |-> 192, medium |-> 128, low |-> 64],
     aac |-> [high |-> 256, medium |-> 192, low |-> 128]]
VIDEO_QUALITY_THRESHOLDS ==
    [mp4 |-> [high |-> [audio |-> 192, video |-> 2000],
              medium |-> [audio |-> 128, video |-> 1000],
              low |-> [audio |-> 96, video |-> 500]]]

\* estimated_bitrate >= kbps, with estimated_bitrate =
\* content_length * 8 / (3 * 60 * 1000)
BitrateAtLeast(content_length, kbps) == content_length * 8 >= kbps * 180000

\* head is the outcome of the HEAD request: HeadError (transport error, error
\* status or malformed content-length), else the content length in bytes.
HeadError == [error |-> TRUE]
HeadOk(content_length) == [content_length |-> content_length]
\* A response with an error status, and one whose content-length header is
\* not a number.
HeadStatus(status_code) == [status_code |-> status_code, content_length |-> 0]
HeadMalformed == [malformed |-> TRUE]
HeadFailures == {HeadError, HeadStatus(404), HeadStatus(500), HeadMalformed}

\* A probe whose status is not looked at.
ProbeFailsUnchecked(head) ==
    "error" \in DOMAIN head \/ "malformed" \in DOMAIN head

\* What the try block raises on: requests.head itself, raise_for_status on a
\* status of 400 or more, int() on the content-length header.
ProbeFails(head) ==
    \/ "error" \in DOMAIN head
    \/ "status_code" \in DOMAIN head /\ head.status_code >= 400
    \/ "malformed" \in DOMAIN head

analyze_media_quality(url, head) ==
    LET warned(level, media_type) ==
            IF level # "low" THEN <<>>
            ELSE IF media_type = "audio"
            THEN <<"Low quality file may result in poor transcription",
                   "Recommended minimum bitrate (audio)">>
            ELSE <<"Low quality file may result in poor transcription",
                   "Recommended minimum bitrate (audio, video)">>
        graded(level, media_type, format) ==
            [quality_level |-> level, media_type |-> media_type,
             format |-> format, content_length |-> head.content_length,
             warnings |-> warned(level, media_type)]
        audio(th) ==
            IF BitrateAtLeast(head.content_length, th.high) THEN "high"
            ELSE IF BitrateAtLeast(head.content_length, th.medium) THEN "medium"
            ELSE "low"
        video(th) ==
            IF BitrateAtLeast(head.content_length, th.high.video + th.high.audio)
            THEN "high"
            ELSE IF BitrateAtLeast(head.content_length,
                                   th.medium.video + th.medium.audio)
            THEN "medium"
            ELSE "low"
        probed(media_type, format) ==
            IF media_type = None
            THEN [quality_level |-> "unknown",
                  warnings |-> <<"Could not determine media type">>]
            ELSE IF ProbeFails(head)
            THEN [quality_level |-> "unknown",
                  warning |-> "Could not analyze media quality"]
            ELSE graded(IF /\ media_type = "audio"
                           /\ format \in DOMAIN AUDIO_QUALITY_THRESHOLDS
                        THEN audio(AUDIO_QUALITY_THRESHOLDS[format])
                        ELSE IF /\ media_type = "video"
                                /\ format \in DOMAIN VIDEO_QUALITY_THRESHOLDS
                        THEN video(VIDEO_QUALITY_THRESHOLDS[format])
                        ELSE "unknown",
                        media_type, format)
        typed(mt) == probed(mt[1], mt[2])
    IN  typed(get_media_type(url))

-----------------------------------------------------------------------------
(* Blocking calls.  A handler blocks in its requests to the provider, to   *)
(* the media host and to the sheet, and in its sleeps; between two of      *)
(* these calls the provider and the other requests act.  A handler         *)
(* operator takes the log `at` of the blocking calls its invocation has    *)
(* made: at[label] holds what the call with that label read of the shared  *)
(* state (seen) and the seconds it took (took).  A call that is not in the *)
(* log reads the current state.  With its result the operator tells the    *)
(* requests it made: the blocking calls on the path taken, in order, each  *)
(* with what it reads and what it writes.                                  *)

\* The label of a call: its name and, in a loop, the pass and the
\* invocation within the pass.
At(name) == <<name, 0, 0>>
Pass(name, k, i) == <<name, k, i>>
NoCalls == <<>>

JobsAt(at, label) == IF label \in DOMAIN at THEN at[label].seen ELSE jobs
SheetAt(at, label) == IF label \in DOMAIN at THEN at[label].seen ELSE sheet
TookAt(at, label) == IF label \in DOMAIN at THEN at[label].took ELSE 0

\* What a call writes: nothing, a job of the provider (an accepted
\* POST /jobs), a cell of the sheet.
NoWrite == [kind |-> "none"]
JobWrite(payload) == [kind |-> "job", payload |-> payload]
CellWrite(col, row, value) ==
    [kind |-> "cell", col |-> col, row |-> row, value |-> value]

\* A blocking call: reads is "jobs", "sheet" or "none".
CallOf(label, reads, write) ==
    [label |-> label, reads |-> reads, write |-> write]
\* time.sleep(seconds)
SleepOf(label, seconds) ==
    CallOf(label, "none", NoWrite) @@ [seconds |-> seconds]

-----------------------------------------------------------------------------
(* The transcription provider (the environment).  A job is created by      *)
(* POST /jobs and keeps what was submitted; its status leaves in_progress  *)
(* at most once; the transcript exists once the job is completed.  js is   *)
(* the registry at the time of the request.                                *)

ProviderJob(js, id) ==
    [id |-> id, status |-> js[id].status, media_url |-> js[id].media_url,
     metadata |-> js[id].metadata, failure_detail |-> js[id].failure_detail]

\* GET /jobs/{id}: ok is the transport outcome; an unknown id is an error.
GetJob(js, id, ok) ==
    IF ok /\ id \in DOMAIN js
    THEN [exc |-> NoExc, val |-> ProviderJob(js, id)]
    ELSE [exc |-> Exc("RequestException", "GET /jobs/{id}"), val |-> None]

\* GET /jobs/{id}/transcript: an error unless the job is completed.
GetTranscript(js, id, ok) ==
    IF ok /\ id \in DOMAIN js /\ js[id].status = "completed"
    THEN [exc |-> NoExc, val |-> js[id].transcript]
    ELSE [exc |-> Exc("RequestException", "GET /jobs/{id}/transcript"),
          val |-> <<>>]

-----------------------------------------------------------------------------
(* transcription/rev_ai.py: status, transcript                             *)

check_job_status(js, job_id, ok) ==
    LET r == GetJob(js, job_id, ok)
    IN  IF r.exc # NoExc
        THEN [exc |-> Exc("RevAiError", "Failed to check job status"), val |-> None]
        ELSE r

\* A client that hands back a transcript whatever the provider answers.
get_transcript_unchecked(js, job_id, ok) == [exc |-> NoExc, val |-> T_fixed]

get_transcript(js, job_id, ok) ==
    LET r == GetTranscript(js, job_id, ok)
    IN  IF r.exc # NoExc
        THEN [exc |-> Exc("RevAiError", "Failed to retrieve transcript"),
              val |-> <<>>]
        ELSE r

-----------------------------------------------------------------------------
(* Python floats (IEEE-754 binary64), as far as the scorer uses them: the  *)
(* sum and the mean of confidences and their comparison with 0.8 and 0.9.  *)
(* A double between 2^-12 and 2^21, or zero, is written as its multiple of *)
(* 2^-66 in Limbs digits of LimbBits bits each, the most significant       *)
(* first; it has at most Significand significant bits.  A confidence is    *)
(* written in hundredths (80 for the JSON number 0.8).                     *)

Significand == 53
LimbBits == 11
Limbs == 8
Base == 2 ^ LimbBits
DoubleWidth == Limbs * LimbBits

RECURSIVE Zeros(_)
Zeros(n) == IF n = 0 THEN <<>> ELSE <<0>> \o Zeros(n - 1)
ZeroLimbs == Zeros(Limbs)

\* x[i..] + y[i..]: the carry out of limb i and the limbs of the sum.
RECURSIVE AddFrom(_, _, _)
AddFrom(x, y, i) ==
    IF i > Limbs THEN [carry |-> 0, limbs |-> <<>>]
    ELSE LET with(lower) ==
                 [carry |-> (x[i] + y[i] + lower.carry) \div Base,
                  limbs |-> <<(x[i] + y[i] + lower.carry) % Base>>
                                \o lower.limbs]
         IN  with(AddFrom(x, y, i + 1))

\* x + y modulo 2^DoubleWidth
AddLimbs(x, y) == AddFrom(x, y, 1).limbs

LessLimbs(x, y) ==
    \E i \in 1..Limbs :
        /\ x[i] < y[i]
        /\ \A j \in 1..(i - 1) : x[j] = y[j]

\* The long division of x by n from limb i on: the quotient limbs after
\* those in quotient, and the remainder.
RECURSIVE DivFrom(_, _, _, _, _)
DivFrom(x, n, i, remainder, quotient) ==
    IF i > Limbs THEN [quotient |-> quotient, remainder |-> remainder]
    ELSE DivFrom(x, n, i + 1, (Base * remainder + x[i]) % n,
                 Append(quotient, (Base * remainder + x[i]) \div n))

\* Bit j of x, counting from the most significant.
BitOf(x, j) ==
    (x[(j - 1) \div LimbBits + 1]
        \div 2 ^ (LimbBits - 1 - ((j - 1) % LimbBits))) % 2

\* The index of the last bit a double with the leading bits of x keeps.
LastKept(x) ==
    LET i == CHOOSE i \in 1..Limbs : x[i] # 0 /\ \A j \in 1..(i - 1) : x[j] = 0
        b == CHOOSE b \in 1..LimbBits : x[i] \div 2 ^ (LimbBits - b) = 1
    IN  (i - 1) * LimbBits + b + Significand - 1

\* x with the bits after bit k cleared, from limb i on.
RECURSIVE KeepFrom(_, _, _)
KeepFrom(x, k, i) ==
    IF i > Limbs THEN <<>>
    ELSE <<IF i * LimbBits <= k THEN x[i]
           ELSE IF (i - 1) * LimbBits >= k THEN 0
           ELSE x[i] - (x[i] % (2 ^ (i * LimbBits - k)))>> \o KeepFrom(x, k, i + 1)

\* The number with a one at bit k only.
UnitLimbs(k) ==
    Zeros((k - 1) \div LimbBits)
        \o <<2 ^ (LimbBits - 1 - ((k - 1) % LimbBits))>>
        \o Zeros(Limbs - 1 - ((k - 1) \div LimbBits))

\* Rounding to nearest, ties to even, to Significand significant bits, of x
\* plus, when inexact holds, a rest below the last bit of x.
RoundLimbs(x, inexact) ==
    IF x = ZeroLimbs THEN x
    ELSE IF LastKept(x) >= DoubleWidth THEN x
    ELSE LET rounded(k) ==
                 IF /\ BitOf(x, k + 1) = 1
                    /\ \/ inexact
                       \/ BitOf(x, k) = 1
                       \/ x # KeepFrom(x, k + 1, 1)
                 THEN AddLimbs(KeepFrom(x, k, 1), UnitLimbs(k))
                 ELSE KeepFrom(x, k, 1)
         IN  rounded(LastKept(x))

\* The integer n, 0 <= n < Base^2, as a double.
IntLimbs(n) == <<n \div Base, n % Base>> \o Zeros(Limbs - 2)

\* x / n for a double x and an integer n: the exact quotient, rounded.
DoubleDiv(x, n) ==
    LET rounded(d) == RoundLimbs(d.quotient, d.remainder # 0)
    IN  rounded(DivFrom(x, n, 1, 0, <<>>))

\* x + y of two doubles: the exact sum, rounded.
DoubleAdd(x, y) == RoundLimbs(AddLimbs(x, y), FALSE)

\* The double a decimal literal of c hundredths denotes (0.8 is
\* DoubleOf(80)); a JSON number is parsed to the same double.
DoubleOf(c) == DoubleDiv(IntLimbs(c), 100)

\* total_confidence after the loop: 0 + c1 + c2 + ... from left to right.
RECURSIVE DoubleSum(_, _)
DoubleSum(total, confidences) ==
    IF confidences = <<>> THEN total
    ELSE DoubleSum(DoubleAdd(total, DoubleOf(Head(confidences))),
                   Tail(confidences))

\* x + u * 2^-k
RECURSIVE StepUp(_, _, _)
StepUp(x, k, u) ==
    IF u = 0 THEN x ELSE StepUp(AddLimbs(x, UnitLimbs(k)), k, u - 1)

\* The distance of the double x from the double y, in units of the last
\* place of y; negative when x is below y.
Ulps(x, y) ==
    IF LessLimbs(x, y)
    THEN 0 - (CHOOSE u \in 1..Limbs : StepUp(x, LastKept(y), u) = y)
    ELSE CHOOSE u \in 0..Limbs : StepUp(y, LastKept(y), u) = x

\* The double nearest to sum / (100 * count).
NearestMean(sum, count) ==
    LET rounded(d) == RoundLimbs(d.quotient, d.remainder # 0)
    IN  rounded(DivFrom(IntLimbs(sum), 100 * count, 1, 0, <<>>))

-----------------------------------------------------------------------------
(* transcription/quality.py                                                *)

TextElements(transcript) ==
    LET all == Flatten([m \in 1..Len(transcript) |-> transcript[m].elements])
    IN  SelectSeq(all, LAMBDA el : el.type = "text")

\* env.job, env.qtranscript: transport outcomes of the two provider GETs;
\* env.head: outcome of the HEAD request to the media URL.  The job read is
\* the call "job" of the log, the transcript read the call "qtranscript".
\* A scorer that fetches the transcript before it looks at the status.
get_transcript_quality_eager(job_id, env, at) ==
    IF GetTranscript(JobsAt(at, At("qtranscript")), job_id, env.qtranscript).exc
           # NoExc
    THEN [exc |-> GetTranscript(JobsAt(at, At("qtranscript")), job_id,
                                env.qtranscript).exc,
          val |-> None]
    ELSE [exc |-> NoExc,
          val |-> [status |-> "completed", total_words |-> 0,
                   overall_confidence |-> ZeroLimbs, warnings |-> <<>>]]

get_transcript_quality(job_id, env, at) ==
    LET \* avg is avg_confidence, a double; good and fair are the doubles
        \* 0.9 and 0.8 it is compared with
        report(low, total_words, avg, good, fair) ==
            [exc |-> NoExc,
             val |-> [status |-> "completed",
                      overall_confidence |-> avg,
                      total_words |-> total_words,
                      low_confidence_count |-> Len(low),
                      low_confidence_words |->
                          [i \in 1..Len(low) |->
                              [word |-> low[i].value,
                               confidence |-> low[i].confidence,
                               timestamp |-> low[i].ts]],
                      quality_rating |->
                          IF LessLimbs(good, avg) THEN "good"
                          ELSE IF LessLimbs(fair, avg) THEN "fair"
                          ELSE "poor",
                      warnings |->
                          (IF LessLimbs(avg, fair)
                           THEN <<"Low overall confidence score">>
                           ELSE <<>>)
                          \o (IF 10 * Len(low) > total_words
                              THEN <<"High number of uncertain words">>
                              ELSE <<>>)]]
        j == GetJob(JobsAt(at, At("job")), job_id, env.job)
        t == GetTranscript(JobsAt(at, At("qtranscript")), job_id,
                           env.qtranscript)
        words == TextElements(t.val)
    IN  IF j.exc # NoExc THEN [exc |-> j.exc, val |-> None]
        ELSE IF j.val.status # "completed"
        THEN [exc |-> NoExc,
              val |-> [status |-> j.val.status,
                       message |-> "Transcript not ready yet",
                       media_quality |->
                           IF j.val.media_url \notin {None, ""}
                           THEN analyze_media_quality(j.val.media_url, env.head)
                           ELSE [quality_level |-> "unknown",
                                 warning |-> "Media URL not found in job details"]]]
        ELSE IF t.exc # NoExc THEN [exc |-> t.exc, val |-> None]
        ELSE IF Len(words) = 0
        THEN [exc |-> Exc("ZeroDivisionError", "division by zero"), val |-> None]
        ELSE report(SelectSeq(words, LAMBDA el : el.confidence < 80),
                    Len(words),
                    DoubleDiv(DoubleSum(ZeroLimbs,
                                        [i \in 1..Len(words) |->
                                            words[i].confidence]),
                              Len(words)),
                    DoubleOf(90), DoubleOf(80))

\* The requests get_transcript_quality sends, in order, each with the names
\* of the headers it carries: the job read with the provider headers, the
\* HEAD request of analyze_media_quality to the media URL, which is handed
\* the same headers, and the transcript read of a completed job.
JobUrl == "REV_AI_API_URL/jobs/{job_id}"
TranscriptUrl == "REV_AI_API_URL/jobs/{job_id}/transcript"
QualityRequests(job_id, env, at) ==
    LET headers == {"Authorization", "Content-Type"}
        probe(media_url) ==
            IF media_url \notin {None, ""}
                   /\ get_media_type(media_url)[1] # None
            THEN <<CallOf(At("head"), "none", NoWrite)
                     @@ [method |-> "HEAD", url |-> media_url,
                         headers |-> headers]>>
            ELSE <<>>
        got(j) ==
            <<CallOf(At("job"), "jobs", NoWrite)
                @@ [method |-> "GET", url |-> JobUrl, headers |-> headers]>>
                \o (IF j.exc # NoExc THEN <<>>
                    ELSE probe(j.val.media_url)
                         \o (IF j.val.status # "completed" THEN <<>>
                             ELSE <<CallOf(At("qtranscript"), "jobs", NoWrite)
                                      @@ [method |-> "GET",
                                          url |-> TranscriptUrl,
                                          headers |-> {"Authorization"}]>>))
    IN  got(GetJob(JobsAt(at, At("job")), job_id, env.job))

-----------------------------------------------------------------------------
(* storage/sheets.py.  The sheet is [nA, E, cells]: nA the number of rows  *)
(* the range A:A returns, E the values of column E, cells the cells        *)
(* written so far, addressed by <<column, row>>.                           *)

QuestionMapped == "Staying Connected"
QuestionDefault == "Manual request"
QUESTION_COLUMN_MAP ==
    [q \in {QuestionMapped} |-> [link_col |-> 15, transcript_col |-> 16]]

\* dict.get(key) with the default None
DictGet(d, key) == IF key \in DOMAIN d THEN d[key] ELSE None

\* Where a transport error strikes during one update_transcript call.
StoreFaults == {"none", "init", "find", "count", "link", "text"}

\* The 1-based index of the first row of column E holding the email; NoRow
\* (Python's None, which "if not row_num" tests) when there is none or when
\* the read fails.
NoRow == 0
find_email_row(sh, email, fault) ==
    LET hits == {i \in 1..Len(sh.E) : sh.E[i] = email}
    IN  IF fault = "find" \/ hits = {} THEN NoRow
        ELSE CHOOSE i \in hits : \A j \in hits : i <= j

WriteCell(sh, col, row, value) ==
    [sh EXCEPT !.cells = (<<col, row>> :> value) @@ sh.cells]

\* str.lstrip() (a note follows the text) and the cell text
LStrip(t) ==
    LET keep == {i \in 1..Len(t) : ~IsSpace(t[i])}
    IN  IF keep = {} THEN <<>>
        ELSE SubSeq(t, CHOOSE i \in keep : \A j \in keep : i <= j, Len(t))

\* x[i..] * n: the carry out of limb i and the limbs of the product.
RECURSIVE MulFrom(_, _, _)
MulFrom(x, n, i) ==
    IF i > Limbs THEN [carry |-> 0, limbs |-> <<>>]
    ELSE LET with(lower) ==
                 [carry |-> (x[i] * n + lower.carry) \div Base,
                  limbs |-> <<(x[i] * n + lower.carry) % Base>> \o lower.limbs]
         IN  with(MulFrom(x, n, i + 1))

\* f"{confidence:.2%}" of a double 0 <= confidence <= 1: the number of
\* hundredths of a percent printed (8000 for "80.00%").  The format
\* multiplies by 100 in double arithmetic, so that the product is rounded to
\* a double, and prints the exact value of that double rounded to two
\* decimals, ties to even.
PercentOf(confidence) ==
    LET rounded(whole, rest) ==
            IF rest = <<Base \div 2>> \o Zeros(Limbs - 3)
            THEN whole + (whole % 2)
            ELSE IF rest[1] >= Base \div 2 THEN whole + 1 ELSE whole
        printed(p) ==
            rounded(p.limbs[1] * Base + p.limbs[2], SubSeq(p.limbs, 3, Limbs))
        percent(p) == printed(MulFrom(RoundLimbs(p.limbs, FALSE), 100, 1))
    IN  percent(MulFrom(confidence, 100, 1))

\* f"{transcript}\n{quality_note}".strip(): the note exists only when the
\* quality metrics carry warnings; it shows the confidence and the warnings.
TranscriptWithNotes(transcript, quality_metrics) ==
    LET warnings == IF "warnings" \in DOMAIN quality_metrics
                    THEN quality_metrics.warnings ELSE <<>>
        confidence == IF "overall_confidence" \in DOMAIN quality_metrics
                      THEN quality_metrics.overall_confidence ELSE ZeroLimbs
    IN  IF warnings = <<>>
        THEN [text |-> Strip(transcript), note |-> <<>>]
        ELSE [text |-> LStrip(transcript),
              note |-> <<PercentOf(confidence), warnings>>]

\* Returns [ok, requests]: the boolean result and the requests made to the
\* sheet.  The calls of the log: "find" (the read of column E), "count"
\* (the read of column A), "link" and "text" (the two writes).  A request
\* the transport error strikes writes nothing.
update_transcript(email, question, media_url, transcript, quality_metrics, fault, at) ==
    LET find == <<CallOf(At("find"), "sheet", NoWrite)>>
        count == <<CallOf(At("count"), "sheet", NoWrite)>>
        write(label, col, row, value) ==
            <<CallOf(At(label), "none",
                     IF fault = label THEN NoWrite
                     ELSE CellWrite(col, row, value))>>
        mapped(reads, cols, row_num) ==
            IF fault = "link"
            THEN [ok |-> FALSE,
                  requests |-> reads \o write("link", cols.link_col, row_num,
                                              media_url)]
            ELSE [ok |-> fault # "text",
                  requests |->
                      reads
                      \o write("link", cols.link_col, row_num, media_url)
                      \o write("text", cols.transcript_col, row_num,
                               TranscriptWithNotes(transcript, quality_metrics))]
        located(reads, row_num) ==
            IF question \notin DOMAIN QUESTION_COLUMN_MAP
            THEN [ok |-> FALSE, requests |-> reads]
            ELSE mapped(reads, QUESTION_COLUMN_MAP[question], row_num)
        looked(found) ==
            IF found # NoRow THEN located(find, found)
            ELSE IF fault = "count"
            THEN [ok |-> FALSE, requests |-> find \o count]
            ELSE located(find \o count, SheetAt(at, At("count")).nA + 1)
    IN  IF fault = "init" THEN [ok |-> FALSE, requests |-> <<>>]
        ELSE looked(find_email_row(SheetAt(at, At("find")), email, fault))

-----------------------------------------------------------------------------
(* transcription/rev_ai.py: handle_transcription_job.  post_ok is the       *)
(* outcome of POST /jobs, env.status the pass of the poll loop whose status *)
(* request fails (0: none), env.transcript the outcome of the transcript    *)
(* fetch; label is the call of the log the POST is.  Returns [exc, val,     *)
(* posts, requests, outcome, seen, elapsed]: the exception raised or the    *)
(* value returned, the payloads posted, the requests made, how the call     *)
(* ended, the status the last poll saw and the seconds since start_time.    *)

NewJob(payload) ==
    [media_url |-> payload.media_url, metadata |-> payload.metadata,
     notify |-> "notification_config" \in DOMAIN payload,
     status |-> "in_progress", transcript |-> T_none, failure_detail |-> ""]

POLL_INTERVAL == 10

\* time.time() - start_time < max_wait_time
LoopGuard(elapsed, max_wait_time) == elapsed < max_wait_time

\* The poll loop from pass k on, elapsed seconds after start_time: the
\* status request of pass k is the call <<"status", k, 0>> of the log and
\* takes the seconds logged with it, the sleep is <<"sleep", k, 0>>.
RECURSIVE WaitLoop(_, _, _, _, _, _)
WaitLoop(k, job_id, max_wait_time, env, at, elapsed) ==
    LET poll == <<CallOf(Pass("status", k, 0), "jobs", NoWrite)>>
        now == elapsed + TookAt(at, Pass("status", k, 0))
        ended(e, val, outcome, seen, requests) ==
            [exc |-> e, val |-> val, outcome |-> outcome, seen |-> seen,
             elapsed |-> now, requests |-> requests]
        fetched(tr) ==
            IF tr.exc # NoExc
            THEN ended(tr.exc, None, "transcript_error", "completed",
                       poll \o <<CallOf(At("transcript"), "jobs", NoWrite)>>)
            ELSE ended(NoExc,
                       [job_id |-> job_id, status |-> "completed",
                        transcript |-> tr.val],
                       "completed", "completed",
                       poll \o <<CallOf(At("transcript"), "jobs", NoWrite)>>)
        slept(w) ==
            [w EXCEPT !.requests = poll \o <<SleepOf(Pass("sleep", k, 0), POLL_INTERVAL)>> \o @]
        polled(st) ==
            IF st.exc # NoExc
            THEN ended(st.exc, None, "status_error", "none", poll)
            ELSE IF st.val.status = "completed"
            THEN fetched(get_transcript(JobsAt(at, At("transcript")), job_id,
                                        env.transcript))
            ELSE IF st.val.status = "failed"
            THEN ended(ExcD("RevAiError", "Transcription job failed",
                            st.val.failure_detail),
                       None, "job_failed", "failed", poll)
            ELSE slept(WaitLoop(k + 1, job_id, max_wait_time, env, at,
                                now + POLL_INTERVAL))
    IN  IF ~LoopGuard(elapsed, max_wait_time)
        THEN [exc |-> Exc("RevAiError", "did not complete within"),
              val |-> None, outcome |-> "timeout", seen |-> "none",
              elapsed |-> elapsed, requests |-> <<>>]
        ELSE polled(check_job_status(JobsAt(at, Pass("status", k, 0)), job_id,
                                     env.status # k))

\* The configuration rev_ai.py imports from config.py.  config.py as shipped
\* binds REV_AI_API_KEY to a constant and defines no WEBHOOK_CALLBACK_URL;
\* the service is specified for a configuration in which either may be
\* missing, and cfg says which are set.
REV_AI_API_KEY == cfg.api_key
\* A configuration that always holds a callback URL.
WEBHOOK_CALLBACK_URL_preset == TRUE
WEBHOOK_CALLBACK_URL == cfg.callback_url

handle_transcription_job(media_url, email, question, wait_for_completion, max_wait_time, post_ok, env, label, at) ==
    LET fail(e) ==
            [exc |-> e, val |-> None, posts |-> <<>>, requests |-> <<>>,
             outcome |-> "submit_error", seen |-> "none", elapsed |-> 0]
        waited(payload, w) ==
            [w EXCEPT !.requests =
                         <<CallOf(label, "jobs", JobWrite(payload))>> \o @]
            @@ [posts |-> <<payload>>]
        post(payload) ==
            IF ~post_ok
            THEN [exc |-> Exc("RevAiError", "Failed to submit transcription job"),
                  val |-> None, posts |-> <<payload>>,
                  requests |-> <<CallOf(label, "jobs", NoWrite)>>,
                  outcome |-> "submit_error", seen |-> "none", elapsed |-> 0]
            ELSE IF wait_for_completion
            THEN waited(payload,
                        WaitLoop(1, Len(JobsAt(at, label)) + 1, max_wait_time,
                                 env, at, 0))
            ELSE [exc |-> NoExc,
                  val |-> [id |-> Len(JobsAt(at, label)) + 1,
                           status |-> "in_progress"],
                  posts |-> <<payload>>,
                  requests |-> <<CallOf(label, "jobs", JobWrite(payload))>>,
                  outcome |-> "submitted", seen |-> "none", elapsed |-> 0]
        build(base) ==
            post(IF WEBHOOK_CALLBACK_URL
                 THEN base @@ [notification_config |-> [method |-> "POST"]]
                 ELSE base)
        checked(v) ==
            IF ~v.valid THEN fail(ExcD("RevAiError", v.message, v.ext))
            ELSE build([media_url |-> media_url,
                        metadata |-> [email |-> email, question |-> question]])
    IN  IF ~REV_AI_API_KEY
        THEN fail(Exc("RevAiError", "REV_AI_API_KEY not configured"))
        ELSE IF ~WEBHOOK_CALLBACK_URL /\ ~wait_for_completion
        THEN fail(Exc("RevAiError", "WEBHOOK_CALLBACK_URL not configured"))
        ELSE checked(validate_media_format(media_url))

-----------------------------------------------------------------------------
(* webhooks/routes.py                                                      *)

\* A JSON null where the code expects an object.
JsonNull == [null |-> TRUE]
IsNull(x) == "null" \in DOMAIN x

\* The retry decorator.  outcomes[k] is the result of the k-th invocation of
\* the wrapped function.  Returns the result that ends the loop (returned,
\* or re-raised when its exc is set), the number of invocations and the
\* waits slept between them.
RECURSIVE RetryLoop(_, _, _, _, _)
RetryLoop(i, retries, backoff_in_seconds, outcomes, slept) ==
    IF i >= retries
    THEN [result |-> outcomes[i + 1], calls |-> i + 1, slept |-> slept]
    ELSE IF outcomes[i + 1].exc = NoExc \/ i = retries - 1
    THEN [result |-> outcomes[i + 1], calls |-> i + 1, slept |-> slept]
    ELSE RetryLoop(i + 1, retries, backoff_in_seconds, outcomes,
                   Append(slept, backoff_in_seconds * 2^i))

\* A decorator whose waits double from twice the initial backoff on.
retry_with_backoff_late(retries, backoff_in_seconds, outcomes) ==
    LET waits(w) ==
            [w EXCEPT !.slept = [i \in DOMAIN w.slept |-> 2 * w.slept[i]]]
    IN  waits(RetryLoop(0, retries, backoff_in_seconds, outcomes, <<>>))

retry_with_backoff(retries, backoff_in_seconds, outcomes) ==
    RetryLoop(0, retries, backoff_in_seconds, outcomes, <<>>)

\* The blocking calls of the wrapper w for the k-th item of its caller:
\* the requests of each invocation made and, after each but the last, the
\* time.sleep of the decorator, the call <<"backoff", k, i>> of the log.
WrapperRequests(k, w, outcomes) ==
    Flatten([i \in 1..w.calls |->
                (IF "requests" \in DOMAIN outcomes[i]
                 THEN outcomes[i].requests ELSE <<>>)
                \o (IF i <= Len(w.slept)
                    THEN <<SleepOf(Pass("backoff", k, i), w.slept[i])>>
                    ELSE <<>>)])

RECURSIVE find_question_text(_, _)
find_question_text(questions, question_id) ==
    IF questions = <<>> THEN [exc |-> NoExc, val |-> "Unknown Question"]
    ELSE IF Head(questions).question_id = question_id
    THEN IF IsNull(Head(questions).metadata)
         THEN [exc |-> Exc("AttributeError", "'NoneType' object has no attribute 'get'"),
               val |-> None]
         ELSE [exc |-> NoExc, val |-> Head(questions).metadata.text]
    ELSE find_question_text(Tail(questions), question_id)

\* Binding the keyword arguments of a call to handle_transcription_job:
\* a keyword that is no parameter raises TypeError before the body runs.
HTJ_PARAMETERS ==
    {"media_url", "email", "question", "wait_for_completion", "max_wait_time"}
CallBinds(keywords) == keywords \subseteq HTJ_PARAMETERS

\* The keywords process_media_answer passes.
PMA_KEYWORDS == {"media_url", "email", "question", "metadata"}

\* The default of the parameter max_wait_time.
MaxWaitDefault == 300

\* Outcomes of the outbound calls of one handler: the pass of the poll loop
\* whose status request fails (0: none), the transcript fetch, the two
\* provider reads and the media probe of the quality scorer, and the store.
\* At most one of them fails.
NoFault ==
    [status |-> 0, transcript |-> TRUE, job |-> TRUE, qtranscript |-> TRUE,
     head |-> HeadOk(4320000), store |-> "none"]

\* One invocation of the body of process_media_answer.  An exc is an
\* exception that leaves the function; val is the dict it returns.
process_media_answer_body(answer, contact, form_data, post_ok, label, at) ==
    LET media_url == answer.media_url
        raise(e) ==
            [exc |-> e, val |-> None, posts |-> <<>>, requests |-> <<>>]
        \* the provider's answer to POST /jobs carries no transcript: the
        \* job_result is returned as it is
        submitted(r) ==
            IF r.exc # NoExc
            THEN [exc |-> NoExc,
                  val |-> [error |-> <<"", r.exc.msg>>, media_url |-> media_url],
                  posts |-> r.posts, requests |-> r.requests]
            ELSE [exc |-> NoExc, val |-> r.val, posts |-> r.posts,
                  requests |-> r.requests]
        found(q) ==
            IF q.exc # NoExc THEN raise(q.exc)
            ELSE IF ~CallBinds(PMA_KEYWORDS)
            THEN [exc |-> NoExc,
                  val |-> [error |-> <<"Unexpected error: ",
                                       "unexpected keyword argument 'metadata'">>,
                           media_url |-> media_url],
                  posts |-> <<>>, requests |-> <<>>]
            ELSE submitted(handle_transcription_job(
                               media_url, DictGet(contact, "email"), q.val,
                               FALSE, MaxWaitDefault, post_ok, NoFault, label,
                               at))
    IN  IF IsNull(form_data)
        THEN raise(Exc("AttributeError", "'NoneType' object has no attribute 'get'"))
        ELSE found(find_question_text(form_data.questions, answer.question_id))

RETRIES == 3
BACKOFF_IN_SECONDS == 1

\* The invocations the decorator can make of the body for answer k, in
\* order; the POST /jobs of invocation i is the call <<"post", k, i>> of the
\* log.  post_fails is the number of leading invocations whose POST fails.
MediaAnswerOutcomes(k, answer, contact, form_data, post_fails, at) ==
    [i \in 1..(RETRIES + 1) |->
        process_media_answer_body(answer, contact, form_data, i > post_fails,
                                  Pass("post", k, i), at)]

\* process_media_answer as decorated, for answer k.  The posts and the
\* requests of the result are those of all the invocations made.
process_media_answer(k, answer, contact, form_data, post_fails, at) ==
    LET sent(outcomes, w) ==
            [w EXCEPT !.result.posts =
                          Flatten([i \in 1..w.calls |-> outcomes[i].posts]),
                      !.result.requests = WrapperRequests(k, w, outcomes)]
        decorated(outcomes) ==
            sent(outcomes,
                 retry_with_backoff(RETRIES, BACKOFF_IN_SECONDS, outcomes))
    IN  decorated(MediaAnswerOutcomes(k, answer, contact, form_data,
                                      post_fails, at))

\* answer.get("media_url") and answer.get("type") in ["video", "audio"]:
\* a media_url that is missing, null or empty is falsy.
IsMediaAnswer(answer) ==
    /\ DictGet(answer, "media_url") \notin {None, ""}
    /\ DictGet(answer, "type") \in {"video", "audio"}

\* What the history keeps of the processing of answer k: the invocations
\* the decorator made, whether the last one raised, whether the answer
\* came back as an error dict, the POST /jobs requests sent and the jobs
\* created for it.
Attempt(k, w) ==
    [answer |-> k, calls |-> w.calls,
     raised |-> w.result.exc # NoExc,
     reported |-> w.result.exc = NoExc /\ "error" \in DOMAIN w.result.val,
     posts |-> Len(w.result.posts),
     created |-> Cardinality({i \in DOMAIN w.result.requests :
                                w.result.requests[i].write.kind = "job"})]

\* The loop of handle_form_response from answer k on.  acc carries the
\* errors, the requests made and the history of the loop.
RECURSIVE FormResponseLoop(_, _, _, _, _)
FormResponseLoop(k, data, oracle, at, acc) ==
    LET answers == data.contact.answers
        next(result, seen) ==
            IF result.exc # NoExc THEN [seen EXCEPT !.exc = result.exc]
            ELSE IF "error" \in DOMAIN result.val
            THEN FormResponseLoop(k + 1, data, oracle, at,
                     [seen EXCEPT !.errors = Append(@,
                         [media_url |-> result.val.media_url,
                          error |-> result.val.error])])
            ELSE FormResponseLoop(k + 1, data, oracle, at, seen)
        record(w) ==
            next(w.result,
                 [acc EXCEPT !.requests = @ \o w.result.requests,
                             !.processed = Append(@, Attempt(k, w)),
                             !.slept = @ \o w.slept,
                             !.posts = @ \o w.result.posts])
    IN  IF k > Len(answers) THEN acc
        ELSE IF ~IsMediaAnswer(answers[k])
        THEN FormResponseLoop(k + 1, data, oracle, at, acc)
        ELSE record(process_media_answer(k, answers[k], data.contact,
                                         data.form, oracle[k], at))

handle_form_response(data, oracle, at) ==
    FormResponseLoop(1, data, oracle, at,
        [exc |-> NoExc, errors |-> <<>>, requests |-> <<>>,
         processed |-> <<>>, slept |-> <<>>, posts |-> <<>>])

\* One invocation of update_transcript as the history records it.
UpsertCall(path, job_id, seen, email, question, media_url, transcript, quality_metrics, ok) ==
    [path |-> path, job |-> job_id, seen |-> seen, email |-> email,
     question |-> question, media_url |-> media_url,
     transcript |-> transcript, quality_metrics |-> quality_metrics, ok |-> ok]

\* Returns [exc, val, requests].
process_transcript(transcript_text, job_id, env, at) ==
    LET merge(q, nlp_analysis) ==
            IF q.exc # NoExc \/ transcript_text = <<>> THEN q
            ELSE [exc |-> NoExc,
                  val |-> [nlp_quality_score |-> nlp_analysis.quality_score,
                           enhancement_warnings |->
                               nlp_analysis.enhancement_warnings,
                           content_analysis |-> nlp_analysis.content_analysis,
                           enhanced_text |-> nlp_analysis.enhanced_text]
                          @@ q.val]
    IN  merge(get_transcript_quality(job_id, env, at),
              get_transcript_analysis(transcript_text))
        @@ [requests |-> QualityRequests(job_id, env, at)]

\* transcription/rev_ai.py.  Returns [exc, val, requests]; the transcript
\* fetch is the call "transcript" of the log.
\* "if not job_id": the id is missing or falsy; the ids of the model are
\* numbers, the falsy one is 0.
handle_webhook_callback(callback_data, transcript_ok, at) ==
    LET job == IF "job" \in DOMAIN callback_data THEN callback_data.job
               ELSE <<>>
        job_id == DictGet(job, "id")
        status == DictGet(job, "status")
        fetch == <<CallOf(At("transcript"), "jobs", NoWrite)>>
        fetched(t) ==
            IF t.exc # NoExc
            THEN [exc |-> t.exc, val |-> None, requests |-> fetch]
            ELSE [exc |-> NoExc,
                  val |-> [job_id |-> job_id, status |-> "completed",
                           transcript |-> t.val,
                           metadata |-> IF "metadata" \in DOMAIN job
                                        THEN job.metadata ELSE <<>>],
                  requests |-> fetch]
    IN  IF IsNull(callback_data) \/ IsNull(job)
        THEN [exc |-> Exc("AttributeError",
                          "'NoneType' object has no attribute 'get'"),
              val |-> None, requests |-> <<>>]
        ELSE IF "id" \notin DOMAIN job \/ job.id = 0
        THEN [exc |-> Exc("RevAiError", "No job ID in callback data"),
              val |-> None, requests |-> <<>>]
        ELSE IF status = "completed"
        THEN fetched(get_transcript(JobsAt(at, At("transcript")), job_id,
                                    transcript_ok))
        ELSE IF status = "failed"
        THEN [exc |-> ExcD("RevAiError", "Job failed",
                           DictGet(job, "failure_detail")),
              val |-> None, requests |-> <<>>]
        ELSE [exc |-> NoExc, val |-> [job_id |-> job_id, status |-> status],
              requests |-> <<>>]

\* Returns the dict of the handler, the update_transcript invocations made
\* and the requests made.
handle_rev_ai_callback(data, env, at) ==
    LET error(e, requests) ==
            [val |-> [status |-> "error", error |-> e.msg],
             upserts |-> <<>>, requests |-> requests]
        processed(requests) ==
            [val |-> [status |-> "processed"], upserts |-> <<>>,
             requests |-> requests]
        stored_as(result, metadata, quality_metrics, u, requests) ==
            [val |-> [status |-> "processed"],
             upserts |-> <<UpsertCall("callback", result.job_id, result.status,
                                      DictGet(metadata, "email"),
                                      DictGet(metadata, "question"),
                                      DictGet(metadata, "media_url"),
                                      quality_metrics.enhanced_text,
                                      quality_metrics, u.ok)>>,
             requests |-> requests \o u.requests]
        store(result, metadata, quality_metrics, requests) ==
            stored_as(result, metadata, quality_metrics,
                      update_transcript(DictGet(metadata, "email"),
                                        DictGet(metadata, "question"),
                                        DictGet(metadata, "media_url"),
                                        quality_metrics.enhanced_text,
                                        quality_metrics, env.store, at),
                      requests)
        scored(result, ft, pt, requests) ==
            IF pt.exc # NoExc THEN error(pt.exc, requests \o pt.requests)
            ELSE IF ft.val = <<>> THEN processed(requests \o pt.requests)
            \* metadata.get("email") of a metadata that is null
            ELSE IF IsNull(result.metadata)
            THEN error(Exc("AttributeError",
                           "'NoneType' object has no attribute 'get'"),
                       requests \o pt.requests)
            ELSE store(result, result.metadata, pt.val, requests \o pt.requests)
        cb == handle_webhook_callback(data, env.transcript, at)
        ft == FirstElementValue(cb.val.transcript)
    IN  IF cb.exc # NoExc THEN error(cb.exc, cb.requests)
        ELSE IF cb.val.status # "completed" THEN processed(cb.requests)
        ELSE IF ft.exc # NoExc THEN error(ft.exc, cb.requests)
        ELSE scored(cb.val, ft,
                    process_transcript(ft.val, cb.val.job_id, env, at),
                    cb.requests)

\* What the handler did besides answering: nothing.
NoEffects ==
    [upserts |-> <<>>, processed |-> <<>>, slept |-> <<>>, posts |-> <<>>,
     requests |-> <<>>]

\* A handler without the except clause: the exception leaves the view.
WebhookReraise(e) == [exc |-> e, val |-> None]

\* The except clause of the /webhook handler: the exception becomes an
\* entry of the errors list of an otherwise normal response.
WebhookExcept(e) ==
    [exc |-> NoExc,
     val |-> [status |-> "processed",
              errors |-> <<[error |-> <<"Webhook processing error: ", e.msg>>]>>]]

\* The /webhook handler.  Returns [exc, val] (an exception leaving the
\* handler, or response_data) and the effects of the handling.
videoask_webhook(data, oracle, env, at) ==
    LET form(r) ==
            (IF r.exc # NoExc
             THEN WebhookExcept(r.exc)
             ELSE [exc |-> NoExc,
                   val |-> [status |-> "processed", errors |-> r.errors]])
            @@ [upserts |-> <<>>, processed |-> r.processed,
                slept |-> r.slept, posts |-> r.posts,
                requests |-> r.requests]
        callback(c) ==
            [exc |-> NoExc,
             val |-> [status |-> "processed",
                      errors |-> IF "error" \in DOMAIN c.val
                                 THEN <<[error |-> <<"Callback processing error: ",
                                                     c.val.error>>]>>
                                 ELSE <<>>]]
            @@ [NoEffects EXCEPT !.upserts = c.upserts,
                                 !.requests = c.requests]
    IN  \* data.get("event_type") of a body that is null
        IF IsNull(data)
        THEN WebhookExcept(Exc("AttributeError",
                               "'NoneType' object has no attribute 'get'"))
             @@ NoEffects
        ELSE IF DictGet(data, "event_type") = "form_response"
        THEN form(handle_form_response(data, oracle, at))
        \* data.get("job"): a job that is missing, null or an empty object
        \* is falsy
        ELSE IF "job" \in DOMAIN data /\ ~IsNull(data.job)
                    /\ DOMAIN data.job # {}
        THEN callback(handle_rev_ai_callback(data, env, at))
        ELSE [exc |-> NoExc, val |-> [status |-> "processed", errors |-> <<>>]]
             @@ NoEffects

\* The HTTP layer: the view's return value is sent with its status code; an
\* exception that leaves the view is answered with 500.
SendResponse(r, http) ==
    IF r.exc # NoExc
    THEN [http |-> 500, body |-> [error |-> r.exc.msg]]
    ELSE [http |-> http, body |-> r.val]

-----------------------------------------------------------------------------
(* manual/routes.py                                                        *)

\* A media_url that is a JSON number: truthy and not a str, so that
\* urlparse, reached through validate_media_format, raises AttributeError.
JsonNumber == "123 (a JSON number)"

\* Returns [exc, val]: the message or None, or what the call raises.
\* "if not data.get(...)": a value that is missing, null or empty is falsy;
\* data.get of a body that is null raises.
validate_request(data) ==
    LET returns(message) == [exc |-> NoExc, val |-> message]
        raises(e) == [exc |-> e, val |-> None]
    IN  IF IsNull(data)
        THEN raises(Exc("AttributeError",
                        "'NoneType' object has no attribute 'get'"))
        ELSE IF DictGet(data, "media_url") \in {None, ""}
        THEN returns("media_url is required")
        ELSE IF data.media_url = JsonNumber
        THEN raises(Exc("AttributeError",
                        "'int' object has no attribute 'decode'"))
        ELSE IF ~validate_media_format(data.media_url).valid
        THEN returns(validate_media_format(data.media_url).message)
        ELSE IF DictGet(data, "email") \in {None, ""}
        THEN returns("email is required")
        ELSE returns(None)

\* data.get(key, default): the default stands in for a missing key only.
GetOr(data, key, default) == IF key \in DOMAIN data THEN data[key] ELSE default

\* data.get("question", "Manual request"): the default stands in for a
\* missing key only; a body whose question is null (None) keeps None.
QuestionOf(data) ==
    IF "question" \in DOMAIN data THEN data.question ELSE QuestionDefault

\* The except clause of request_transcription.
ManualExcept(e) ==
    [http |-> 500,
     body |-> [error |-> e.msg, detail |-> e.detail, status |-> "error"]]

\* "For non-completed jobs, return job details"
ManualJobDetails(result) ==
    [http |-> 200,
     body |-> [status |-> IF "status" \in DOMAIN result
                          THEN result.status ELSE "unknown",
               job_id |-> DictGet(result, "id"),
               message |-> "Transcription job submitted successfully"]]

\* request_transcription once handle_transcription_job has returned result:
\* the merge of the quality signals, the store, the response.  Returns the
\* response, the update_transcript invocations and the requests made.
ManualAfterJob(data, result, env, at) ==
    LET plain(resp, requests) ==
            [resp |-> resp, upserts |-> <<>>, requests |-> requests]
        stored_as(enhanced_text, quality_metrics, u, requests) ==
            [resp |-> [http |-> 200,
                       body |-> [status |-> "completed",
                                 job_id |-> result.job_id,
                                 transcript |-> enhanced_text,
                                 quality_metrics |-> quality_metrics]],
             upserts |-> <<UpsertCall("sync", result.job_id, result.status,
                                      data.email, QuestionOf(data),
                                      data.media_url, enhanced_text,
                                      quality_metrics, u.ok)>>,
             requests |-> requests \o u.requests]
        store(enhanced_text, quality_metrics, requests) ==
            stored_as(enhanced_text, quality_metrics,
                      update_transcript(data.email, QuestionOf(data),
                                        data.media_url, enhanced_text,
                                        quality_metrics, env.store, at),
                      requests)
        scored(q, nlp_analysis, requests) ==
            IF q.exc # NoExc THEN plain(ManualExcept(q.exc), requests)
            ELSE store(nlp_analysis.enhanced_text,
                       [nlp_quality_score |-> nlp_analysis.quality_score,
                        enhancement_warnings |->
                            nlp_analysis.enhancement_warnings,
                        content_analysis |-> nlp_analysis.content_analysis]
                       @@ q.val,
                       requests)
        ft == FirstElementValue(result.transcript)
    IN  IF ~(DictGet(result, "status") = "completed" /\ "transcript" \in DOMAIN result)
        THEN plain(ManualJobDetails(result), <<>>)
        ELSE IF ft.exc # NoExc THEN plain(ManualExcept(ft.exc), <<>>)
        ELSE IF ft.val = <<>> THEN plain(ManualJobDetails(result), <<>>)
        ELSE scored(get_transcript_quality(result.job_id, env, at),
                    get_transcript_analysis(ft.val),
                    QualityRequests(result.job_id, env, at))

\* The /manual/transcribe handler.  Returns the response, how the call of
\* handle_transcription_job ended and what it saw, the job, the
\* update_transcript invocations and the requests made.
request_transcription(data, post_ok, env, at) ==
    LET \* r is what handle_transcription_job returned or raised, a what
        \* the handler did with a job returned
        answered(r, a) ==
            IF r.exc # NoExc
            THEN [resp |-> ManualExcept(r.exc), outcome |-> r.outcome,
                  seen |-> r.seen,
                  job |-> IF r.posts = <<>> \/ ~post_ok THEN 0
                          ELSE Len(JobsAt(at, At("post"))) + 1,
                  elapsed |-> r.elapsed, upserts |-> <<>>,
                  requests |-> r.requests]
            ELSE [resp |-> a.resp, outcome |-> r.outcome, seen |-> r.seen,
                  job |-> IF "job_id" \in DOMAIN r.val THEN r.val.job_id
                          ELSE r.val.id,
                  elapsed |-> r.elapsed, upserts |-> a.upserts,
                  requests |-> r.requests \o a.requests]
        unanswered(resp, outcome) ==
            [resp |-> resp, outcome |-> outcome, seen |-> "none", job |-> 0,
             elapsed |-> 0, upserts |-> <<>>, requests |-> <<>>]
        wait_for_completion == GetOr(data, "wait_for_completion", FALSE)
        max_wait_time == GetOr(data, "max_wait_time", MaxWaitDefault)
    IN  \* validate_request is called outside the try block: what it raises
        \* leaves the view
        IF validate_request(data).exc # NoExc
        THEN unanswered(SendResponse(validate_request(data), 500), "raised")
        ELSE IF validate_request(data).val # None
        THEN unanswered([http |-> 400,
                         body |-> [error |-> validate_request(data).val]],
                        "rejected")
        ELSE answered(
                 handle_transcription_job(
                     data.media_url, data.email, QuestionOf(data),
                     wait_for_completion, max_wait_time,
                     post_ok, env, At("post"), at),
                 ManualAfterJob(
                     data,
                     handle_transcription_job(
                         data.media_url, data.email, QuestionOf(data),
                         wait_for_completion, max_wait_time,
                         post_ok, env, At("post"), at).val,
                     env, at))

\* req.get("question", "Batch request"), for a missing key only
QuestionBatch == "Batch request"

\* The loop of batch_transcribe from request k on.  post_oks[k] is the
\* outcome of the POST /jobs made for request k, the call <<"post", k, 0>>
\* of the log.  acc carries the results and the requests sent.
RECURSIVE BatchLoop(_, _, _, _, _)
BatchLoop(k, requests, post_oks, at, acc) ==
    LET item == requests[k]
        rejected(message) ==
            BatchLoop(k + 1, requests, post_oks, at,
                [acc EXCEPT !.results = Append(@,
                    [media_url |-> item.media_url, error |-> message,
                     status |-> "error"])])
        submitted(r) ==
            BatchLoop(k + 1, requests, post_oks, at,
                [acc EXCEPT
                    !.results = Append(@,
                        IF r.exc # NoExc
                        THEN [media_url |-> item.media_url, error |-> r.exc.msg,
                              status |-> "error"]
                        ELSE [media_url |-> item.media_url,
                              job_id |-> DictGet(r.val, "id"),
                              status |-> IF "status" \in DOMAIN r.val
                                         THEN r.val.status ELSE "unknown"]),
                    !.requests = @ \o r.requests,
                    !.posts = @ \o r.posts])
        validated(v) ==
            IF v.exc # NoExc THEN [acc EXCEPT !.exc = v.exc]
            ELSE IF v.val # None THEN rejected(v.val)
            ELSE submitted(handle_transcription_job(
                               item.media_url, item.email,
                               IF "question" \in DOMAIN item
                               THEN item.question ELSE QuestionBatch,
                               FALSE, MaxWaitDefault, post_oks[k], NoFault,
                               Pass("post", k, 0), at))
    IN  IF k > Len(requests) THEN acc
        ELSE validated(validate_request(item))

\* The /manual/batch handler.  Returns the response, the payloads posted
\* and the requests sent to the provider.
batch_transcribe(data, post_oks, at) ==
    LET answered(acc) ==
            [resp |-> IF acc.exc # NoExc
                      THEN SendResponse([exc |-> acc.exc, val |-> None], 500)
                      ELSE [http |-> 200,
                            body |-> [results |-> acc.results,
                                      total |-> Len(acc.results),
                                      failed |-> Cardinality(
                                          {i \in DOMAIN acc.results :
                                              acc.results[i].status = "error"})]],
             posts |-> acc.posts, requests |-> acc.requests]
    IN  IF data.requests = <<>>
        THEN [resp |-> [http |-> 400,
                        body |-> [error |-> "requests array is required"]],
              posts |-> <<>>, requests |-> <<>>]
        ELSE answered(BatchLoop(1, data.requests, post_oks, at,
                 [exc |-> NoExc, results |-> <<>>, requests |-> <<>>,
                  posts |-> <<>>]))

-----------------------------------------------------------------------------
(* The state machine.  A handler that was called runs to its first         *)
(* blocking call; a step of it makes one blocking call and runs to the     *)
(* next one or to its return.  The call, with the outcomes its requests    *)
(* will have, and the log of the calls made are kept in the slot (req or   *)
(* hook) until the handler returns.                                        *)

Email1 == "test@example.com"
Email2 == "new@example.com"

\* max_wait_time values of the requests: negative, zero, not a multiple of
\* the poll interval, a multiple of it.
WaitTimes == {-5, 0, 15, 20}

\* The seconds a status request takes.
Durations == {0, 6}

\* The request bodies of POST /manual/transcribe that pass validation: with
\* a question, with the question null, without the key; max_wait_time
\* matters to a request that waits only.
ValidBodies ==
    {d \in [media_url : {U_mp3},
            email : {Email1, Email2},
            question : {QuestionMapped, None},
            wait_for_completion : BOOLEAN,
            max_wait_time : WaitTimes]
           \cup [media_url : {U_mp3},
                 email : {Email1, Email2},
                 wait_for_completion : BOOLEAN,
                 max_wait_time : WaitTimes] :
        ~d.wait_for_completion => d.max_wait_time = 20}

\* The bodies validate_request rejects: no media_url or an empty one, an
\* unsupported format, no email or an empty one.
RejectedBodies ==
    {[media_url |-> m, email |-> Email1, wait_for_completion |-> w,
      max_wait_time |-> 20] : m \in {None, "", U_pdf}, w \in BOOLEAN}
    \cup {[media_url |-> U_mp3, email |-> e, wait_for_completion |-> FALSE,
           max_wait_time |-> 20] : e \in {None, ""}}

\* request.json: a body that passes validation or not, a body without the
\* optional keys, a body that is a JSON null.
ManualBodies ==
    ValidBodies \cup RejectedBodies
    \cup {[media_url |-> U_mp3, email |-> Email1], JsonNull}

\* The passes of the poll loop whose status request can fail.
MaxPolls == 2

Envs ==
    {NoFault,
     [NoFault EXCEPT !.transcript = FALSE],
     [NoFault EXCEPT !.job = FALSE],
     [NoFault EXCEPT !.qtranscript = FALSE],
     [NoFault EXCEPT !.head = HeadError]}
    \cup {[NoFault EXCEPT !.status = k] : k \in 1..MaxPolls}
    \cup {[NoFault EXCEPT !.store = f] : f \in StoreFaults}

\* The outcomes of the outbound calls of the callback handler, which polls
\* no status.
CallbackEnvs == {env \in Envs : env.status = NoFault.status}

Idle == [pc |-> "idle"]
\* A handler in flight: its call, the log of the blocking calls it has made
\* and the blocking call it makes next.
Running(c, at, next) == [pc |-> "run", call |-> c, at |-> at, next |-> next]

\* The cells a successful update_transcript invocation stored.
StoredCells(u) ==
    [job |-> u.job, path |-> u.path, link |-> u.media_url,
     text |-> TranscriptWithNotes(u.transcript, u.quality_metrics)]

Remember(calls) ==
    stored \cup {StoredCells(calls[i]) : i \in {k \in 1..Len(calls) : calls[k].ok}}

InitialSheets ==
    {[nA |-> 1, E |-> <<Email1>>, cells |-> <<>>]}

NoRequest == [kind |-> "none", upserts |-> <<>>]

\* The configuration the module reads at import: the provider credential
\* and the callback URL, each configured or not.
Configurations == [api_key : BOOLEAN, callback_url : BOOLEAN]

Init ==
    /\ cfg \in Configurations
    /\ jobs = <<>>
    /\ sheet \in InitialSheets
    /\ req = Idle
    /\ hook = Idle
    /\ stored = {}
    /\ last = NoRequest

\* What the history keeps of a request to /manual/transcribe that has been
\* answered: the response, how the wait ended and what it saw and stored.
ManualDone(data, resp, outcome, seen, job_id, elapsed, calls) ==
    [kind |-> "manual", resp |-> resp, outcome |-> outcome, seen |-> seen,
     job |-> job_id, wait |-> GetOr(data, "wait_for_completion", FALSE),
     max_wait_time |-> GetOr(data, "max_wait_time", MaxWaitDefault),
     elapsed |-> elapsed,
     upserts |-> calls]

\* The call of retry_with_backoff(retries, backoff_in_seconds)(func): what
\* the wrapper returns and the sleeps it makes.
WrapperCall(retries, backoff_in_seconds, outcomes) ==
    LET made(w) == [val |-> w, requests |-> WrapperRequests(0, w, outcomes)]
    IN  made(retry_with_backoff(retries, backoff_in_seconds, outcomes))

\* The handler of the call c, run on the log at: what it returns and the
\* blocking calls it makes on the way.
Run(c, at) ==
    CASE c.kind = "manual" ->
             request_transcription(c.data, c.post_ok, c.env, at)
      [] c.kind = "webhook" -> videoask_webhook(c.data, c.oracle, c.env, at)
      [] c.kind = "batch" -> batch_transcribe(c.data, c.post_oks, at)
      [] c.kind = "submit" ->
             handle_transcription_job(c.media_url, Email1, QuestionMapped,
                                      c.wait_for_completion, c.max_wait_time,
                                      c.post_ok, c.env, At("post"), at)
      [] c.kind = "score" ->
             get_transcript_quality(c.job, c.env, at)
                 @@ [requests |-> QualityRequests(c.job, c.env, at)]
      [] c.kind = "upsert" ->
             update_transcript(c.email, c.question, c.media_url, c.transcript,
                               c.quality_metrics, c.fault, at)
      [] c.kind = "wrapper" ->
             WrapperCall(c.retries, c.backoff_in_seconds, c.outcomes)

\* What the history keeps of the call c that returned r.
Returned(c, r, at) ==
    CASE c.kind = "manual" ->
             ManualDone(c.data, r.resp, r.outcome, r.seen, r.job, r.elapsed,
                        r.upserts)
      [] c.kind = "webhook" ->
             [kind |-> "webhook", data |-> c.data, oracle |-> c.oracle,
              resp |-> SendResponse(r, 200),
              processed |-> r.processed, slept |-> r.slept,
              posts |-> r.posts, upserts |-> r.upserts]
      [] c.kind = "batch" ->
             [kind |-> "batch", requests |-> c.data.requests,
              resp |-> r.resp, posts |-> r.posts, before |-> c.before]
      [] c.kind = "submit" ->
             [kind |-> "submit", media_url |-> c.media_url,
              wait_for_completion |-> c.wait_for_completion,
              max_wait_time |-> c.max_wait_time,
              exc |-> r.exc, val |-> r.val, posts |-> r.posts,
              outcome |-> r.outcome, elapsed |-> r.elapsed,
              polls |-> Cardinality({l \in DOMAIN at : l[1] = "status"}),
              before |-> c.before]
      [] c.kind = "score" ->
             [kind |-> "score", job |-> c.job, env |-> c.env,
              seen |-> IF c.job \in DOMAIN JobsAt(at, At("job"))
                       THEN JobsAt(at, At("job"))[c.job].status
                       ELSE "unknown",
              exc |-> r.exc, val |-> r.val, requests |-> r.requests]
      [] c.kind = "upsert" ->
             [kind |-> "upsert", email |-> c.email, question |-> c.question,
              media_url |-> c.media_url, transcript |-> c.transcript,
              quality_metrics |-> c.quality_metrics, fault |-> c.fault,
              ok |-> r.ok, before |-> c.before, earlier |-> c.earlier]
      [] c.kind = "wrapper" ->
             [kind |-> "wrapper", retries |-> c.retries,
              backoff_in_seconds |-> c.backoff_in_seconds,
              outcomes |-> c.outcomes, val |-> r.val]

UpsertsOf(r) == IF "upserts" \in DOMAIN r THEN r.upserts ELSE <<>>

\* The handler of the call c is called: it returns at once, or it is in
\* the slot at its first blocking call.  The history keeps a call that
\* returned until the next call begins.
Start(c) ==
    LET began(r) ==
            IF r.requests = <<>>
            THEN [slot |-> Idle, last |-> Returned(c, r, NoCalls),
                  stored |-> Remember(UpsertsOf(r))]
            ELSE [slot |-> Running(c, NoCalls, r.requests[1]),
                  last |-> NoRequest, stored |-> stored]
    IN  began(Run(c, NoCalls))

\* What a call reads of the shared state, and the shared state after it.
Seen(call) ==
    IF call.reads = "jobs" THEN jobs
    ELSE IF call.reads = "sheet" THEN sheet ELSE None
JobsAfter(call) ==
    IF call.write.kind = "job"
    THEN Append(jobs, NewJob(call.write.payload)) ELSE jobs
TakenBy(call, took) ==
    IF "seconds" \in DOMAIN call THEN call.seconds ELSE took
SheetAfter(call) ==
    IF call.write.kind = "cell"
    THEN WriteCell(sheet, call.write.col, call.write.row, call.write.value)
    ELSE sheet

\* The handler in the slot makes its next blocking call, which takes took
\* seconds, and runs on to the call after it or to its return.
Step(slot, took) ==
    LET logged ==
            (slot.next.label :> [seen |-> Seen(slot.next),
                                 took |-> TakenBy(slot.next, took)])
                @@ slot.at
        went(r) ==
            IF Len(r.requests) = Cardinality(DOMAIN logged)
            THEN [slot |-> Idle, at |-> logged,
                  last |-> Returned(slot.call, r, logged),
                  stored |-> Remember(UpsertsOf(r)),
                  jobs |-> JobsAfter(slot.next),
                  sheet |-> SheetAfter(slot.next)]
            ELSE [slot |-> Running(slot.call, logged,
                                   r.requests[Cardinality(DOMAIN logged) + 1]),
                  at |-> logged, last |-> last, stored |-> stored,
                  jobs |-> JobsAfter(slot.next),
                  sheet |-> SheetAfter(slot.next)]
    IN  went(Run(slot.call, logged))

\* A handler is called with the slot req free.
Called(c) ==
    /\ req.pc = "idle"
    /\ LET started(s) ==
               /\ req' = s.slot
               /\ last' = s.last
               /\ stored' = s.stored
       IN  started(Start(c))
    /\ UNCHANGED <<cfg, jobs, sheet, hook>>

\* The handler in req makes its next blocking call, which takes took
\* seconds, and runs on to the call after it or to its return.
Proceeds(took) ==
    LET stepped(s) ==
            /\ req' = s.slot
            /\ jobs' = s.jobs
            /\ sheet' = s.sheet
            /\ last' = s.last
            /\ stored' = s.stored
    IN  stepped(Step(req, took))

\* POST /manual/transcribe: request_transcription up to its first request
\* to the provider.
ManualTranscribe(data, post_ok, env) ==
    /\ Len(jobs) < MaxJobs
    /\ Called([kind |-> "manual", data |-> data, post_ok |-> post_ok,
               env |-> env])

\* A status request of the poll loop of handle_transcription_job, which
\* takes took seconds, and the code up to the next blocking call.
WaitPoll(took) ==
    /\ req.pc = "run"
    /\ req.next.label[1] = "status"
    /\ Proceeds(took)
    /\ UNCHANGED <<cfg, hook>>

\* time.sleep(10)
WaitSleep ==
    /\ req.pc = "run"
    /\ req.next.label[1] = "sleep"
    /\ Proceeds(0)
    /\ UNCHANGED <<cfg, hook>>

\* time.sleep(wait_time) of the retry decorator
BackoffSleep ==
    /\ req.pc = "run"
    /\ req.next.label[1] = "backoff"
    /\ Proceeds(0)
    /\ UNCHANGED <<cfg, hook>>

\* A request of the handler in req to the provider, to the media host or
\* to the sheet that is no status request of the poll loop.
Outbound ==
    /\ req.pc = "run"
    /\ req.next.label[1] \in {"post", "transcript", "job", "head",
                              "qtranscript", "find", "count", "link", "text"}
    /\ Proceeds(0)
    /\ UNCHANGED <<cfg, hook>>

\* The provider finishes a job.
JobCompletes(id, transcript) ==
    /\ id \in DOMAIN jobs
    /\ jobs[id].status = "in_progress"
    /\ jobs' = [jobs EXCEPT ![id].status = "completed",
                            ![id].transcript = transcript]
    /\ UNCHANGED <<cfg, sheet, req, hook, stored, last>>

JobFails(id) ==
    /\ id \in DOMAIN jobs
    /\ jobs[id].status = "in_progress"
    /\ jobs' = [jobs EXCEPT ![id].status = "failed",
                            ![id].failure_detail = "download_failure"]
    /\ UNCHANGED <<cfg, sheet, req, hook, stored, last>>

\* POST /webhook: videoask_webhook up to its first blocking call.
Webhook(data, oracle, env) ==
    /\ hook.pc = "idle"
    /\ LET started(s) ==
               /\ hook' = s.slot
               /\ last' = s.last
               /\ stored' = s.stored
       IN  started(Start([kind |-> "webhook", data |-> data,
                          oracle |-> oracle, env |-> env]))
    /\ UNCHANGED <<cfg, jobs, sheet, req>>

\* A blocking call of the /webhook handler in flight (a request to the
\* provider, to the media host or to the sheet, or a sleep of the retry
\* decorator) and the code up to the next one.
WebhookProceeds ==
    /\ hook.pc = "run"
    /\ LET stepped(s) ==
               /\ hook' = s.slot
               /\ jobs' = s.jobs
               /\ sheet' = s.sheet
               /\ last' = s.last
               /\ stored' = s.stored
       IN  stepped(Step(hook, 0))
    /\ UNCHANGED <<cfg, req>>

\* The bodies a provider callback can carry: the job envelope echoes the
\* metadata submitted with the job; the status is the one the body claims.
CallbackBodies ==
    {[job |-> [id |-> id, status |-> status,
               metadata |-> IF id \in DOMAIN jobs THEN jobs[id].metadata ELSE <<>>,
               failure_detail |-> IF id \in DOMAIN jobs
                                  THEN jobs[id].failure_detail ELSE ""]] :
        id \in 1..MaxJobs, status \in {"in_progress", "completed", "failed"}}
    \cup {[job |-> [status |-> "completed"]],
          [job |-> [id |-> 0, status |-> "completed"]]}

NoOracle == <<>>

\* The requests to /manual/transcribe with the outcomes of their outbound
\* calls: the outcomes matter to a request that waits only.
ManualCalls ==
    {c \in [data : ManualBodies, post_ok : BOOLEAN, env : Envs] :
        (~GetOr(c.data, "wait_for_completion", FALSE) \/ ~c.post_ok) =>
            c.env = NoFault}

\* The outcomes of the outbound calls of a handler of the two completion
\* paths: every call answered, the transcript fetch fails, the first status
\* request fails, the write of the transcript cell fails.
StoringEnvs ==
    {NoFault,
     [NoFault EXCEPT !.transcript = FALSE],
     [NoFault EXCEPT !.status = 1],
     [NoFault EXCEPT !.store = "text"]}

\* The requests of the two completion paths: those for the contact the sheet
\* holds that wait the default of the tests or do not wait.  The two
\* handlers interleave freely, call by call.
StoringCalls ==
    {c \in ManualCalls :
        /\ "max_wait_time" \in DOMAIN c.data => c.data.max_wait_time = 20
        /\ DictGet(c.data, "email") # Email2
        /\ c.env \in StoringEnvs}

Next ==
    \/ \E c \in StoringCalls : ManualTranscribe(c.data, c.post_ok, c.env)
    \/ \E took \in Durations : WaitPoll(took)
    \/ WaitSleep
    \/ Outbound
    \/ \E id \in 1..MaxJobs, transcript \in Transcripts : JobCompletes(id, transcript)
    \/ \E id \in 1..MaxJobs : JobFails(id)
    \/ \E data \in CallbackBodies, env \in StoringEnvs \cap CallbackEnvs :
          Webhook(data, NoOracle, env)
    \/ WebhookProceeds

Spec == Init /\ [][Next]_vars

-----------------------------------------------------------------------------
(* The /webhook handler on its own: form_response events, provider         *)
(* callbacks and other bodies, with a provider that may hold a job         *)
(* submitted earlier through /manual/transcribe.                           *)

A_audio == [type |-> "audio", media_url |-> U_mp3, question_id |-> "q1"]
A_video == [type |-> "video", media_url |-> U_MP4, question_id |-> "q2"]
A_text == [type |-> "text", media_url |-> None, question_id |-> "q3"]
A_empty == [type |-> "audio", media_url |-> "", question_id |-> "q1"]
AnswerKinds == {A_audio, A_video, A_text, A_empty}
AnswerLists == UNION {[1..n -> AnswerKinds] : n \in 0..MaxAnswers}

\* The form of the event: both questions described; the description of q2
\* a JSON null; the form itself a JSON null.
F_good ==
    [questions |-> <<[question_id |-> "q1", metadata |-> [text |-> QuestionMapped]],
                     [question_id |-> "q2", metadata |-> [text |-> "Other"]]>>]
F_nullmeta ==
    [questions |-> <<[question_id |-> "q1", metadata |-> [text |-> QuestionMapped]],
                     [question_id |-> "q2", metadata |-> JsonNull]>>]
Forms == {F_good, F_nullmeta, JsonNull}

FormEvents ==
    {[event_type |-> "form_response",
      contact |-> [email |-> Email1, answers |-> answers],
      form |-> form] : answers \in AnswerLists, form \in Forms}

\* A body that is neither a form_response event nor a callback: another
\* event, a job that is an empty object, a job that is null, a body that
\* is null.
OtherBodies ==
    {[event_type |-> "form_contact"], [job |-> <<>>], [job |-> JsonNull],
     JsonNull}

\* Per answer, the number of leading invocations whose POST /jobs fails:
\* the provider accepts every submission, or refuses the first of each answer.
Oracles == {[k \in 1..MaxAnswers |-> n] : n \in {0, 1}}

\* The job a client submitted earlier without waiting.
EarlierJob ==
    NewJob([media_url |-> U_mp3,
            metadata |-> [email |-> Email1, question |-> QuestionMapped],
            notification_config |-> [method |-> "POST"]])

InitWebhook ==
    /\ cfg \in Configurations
    /\ jobs \in {<<>>, <<EarlierJob>>}
    /\ sheet \in InitialSheets
    /\ req = Idle
    /\ hook = Idle
    /\ stored = {}
    /\ last = NoRequest

NextWebhook ==
    \/ \E data \in FormEvents, oracle \in Oracles : Webhook(data, oracle, NoFault)
    \/ \E data \in CallbackBodies, env \in CallbackEnvs : Webhook(data, NoOracle, env)
    \* a body of neither kind, or a callback whose metadata is null
    \/ \E data \in OtherBodies
                  \cup {[job |-> [id |-> 1, status |-> "completed",
                                  metadata |-> JsonNull]]} :
          Webhook(data, NoOracle, NoFault)
    \/ WebhookProceeds
    \/ \E id \in 1..MaxJobs, transcript \in Transcripts : JobCompletes(id, transcript)
    \/ \E id \in 1..MaxJobs : JobFails(id)

SpecWebhook == InitWebhook /\ [][NextWebhook]_vars

-----------------------------------------------------------------------------
(* The synchronous wait on its own, with the scheduling the code has: a    *)
(* sleep of the poll loop ends; a request ends when it is answered.        *)

WaitingCalls ==
    {c \in ManualCalls : GetOr(c.data, "wait_for_completion", FALSE)}

NextWait ==
    \/ \E c \in WaitingCalls : ManualTranscribe(c.data, c.post_ok, c.env)
    \/ \E took \in Durations : WaitPoll(took)
    \/ WaitSleep
    \/ Outbound
    \/ \E id \in 1..MaxJobs, transcript \in Transcripts : JobCompletes(id, transcript)
    \/ \E id \in 1..MaxJobs : JobFails(id)

\* time.sleep returns.  A request returns when the peer answers or the
\* transport fails: the code passes no timeout to requests.get, requests.post
\* or requests.head, so that a request the peer never answers never returns
\* and the handler stays at it.
SpecWait ==
    /\ Init
    /\ [][NextWait]_vars
    /\ WF_vars(WaitSleep)

-----------------------------------------------------------------------------
(* The provider client on its own: handle_transcription_job called for a   *)
(* submission and get_transcript_quality called for a job, against a       *)
(* provider that finishes jobs.                                            *)

\* Transcripts without a text element: a monologue without elements, a
\* monologue of punctuation only (T_none has no monologue at all).
T_empty == <<[elements |-> <<>>]>>
T_punct == <<[elements |-> <<PunctEl(<<".">>)>>]>>

\* Two monologues of confident words; a word at each threshold of the
\* rating and of the low-confidence flag; words below it.
T_good ==
    <<[elements |-> <<TextEl(<<"h", "i">>, 95, 5)>>],
      [elements |-> <<TextEl(<<"o", "k">>, 95, 10), PunctEl(<<".">>)>>]>>
T_edge90 == <<[elements |-> <<TextEl(<<"o", "k">>, 90, 5)>>]>>
T_edge80 == <<[elements |-> <<TextEl(<<"o", "k">>, 80, 5)>>]>>
T_poor ==
    <<[elements |-> <<TextEl(<<"h", "i">>, 80, 5),
                      TextEl(<<"o", "k">>, 75, 10)>>]>>

\* Words whose confidences do not add up exactly in binary: three words of
\* 0.8 sum to 2.4000000000000004, 0.7 and five words of 0.82 to
\* 4.799999999999999.
T_three80 ==
    <<[elements |-> <<TextEl(<<"h", "i">>, 80, 5), TextEl(<<"o", "k">>, 80, 10),
                      TextEl(<<"h", "i">>, 80, 15)>>]>>
T_six80 ==
    <<[elements |-> <<TextEl(<<"h", "i">>, 70, 5), TextEl(<<"o", "k">>, 82, 10),
                      TextEl(<<"h", "i">>, 82, 15)>>],
      [elements |-> <<TextEl(<<"o", "k">>, 82, 20), TextEl(<<"h", "i">>, 82, 25),
                      TextEl(<<"o", "k">>, 82, 30)>>]>>

ScoredTranscripts ==
    {T_hello, T_none, T_empty, T_punct, T_good, T_edge90, T_edge80, T_poor,
     T_three80, T_six80}

\* The outcomes of the outbound calls of get_transcript_quality.
ScoreEnvs ==
    {NoFault,
     [NoFault EXCEPT !.job = FALSE],
     [NoFault EXCEPT !.qtranscript = FALSE]}
    \cup {[NoFault EXCEPT !.head = h] : h \in HeadFailures}

\* The calls of handle_transcription_job: max_wait_time and the outcomes of
\* the polls and of the transcript fetch matter to a call that waits only.
SubmitCalls ==
    {c \in [media_url : Urls, wait_for_completion : BOOLEAN,
            max_wait_time : {0, 15, MaxWaitDefault}, post_ok : BOOLEAN,
            env : {NoFault, [NoFault EXCEPT !.status = 1],
                   [NoFault EXCEPT !.transcript = FALSE]}] :
        /\ ~c.wait_for_completion =>
               (c.max_wait_time = MaxWaitDefault /\ c.env = NoFault)
        /\ c.wait_for_completion => c.max_wait_time # MaxWaitDefault}

\* handle_transcription_job(media_url, email, question, wait_for_completion,
\* max_wait_time) up to its first request to the provider.
Submit(media_url, wait_for_completion, max_wait_time, post_ok, env) ==
    /\ Len(jobs) < MaxJobs
    /\ Called([kind |-> "submit", media_url |-> media_url,
               wait_for_completion |-> wait_for_completion,
               max_wait_time |-> max_wait_time, post_ok |-> post_ok,
               env |-> env, before |-> Len(jobs)])

\* get_transcript_quality(job_id) up to its first request to the provider.
Score(job_id, env) ==
    Called([kind |-> "score", job |-> job_id, env |-> env])

NextClient ==
    \/ \E c \in SubmitCalls :
          Submit(c.media_url, c.wait_for_completion, c.max_wait_time,
                 c.post_ok, c.env)
    \/ \E job_id \in 1..MaxJobs, env \in ScoreEnvs : Score(job_id, env)
    \/ \E took \in Durations : WaitPoll(took)
    \/ WaitSleep
    \/ Outbound
    \/ \E id \in 1..MaxJobs, transcript \in ScoredTranscripts :
          JobCompletes(id, transcript)
    \/ \E id \in 1..MaxJobs : JobFails(id)

SpecClient == Init /\ [][NextClient]_vars

-----------------------------------------------------------------------------
(* The /manual/batch endpoint on its own.                                  *)

MaxBatch == 2

\* The requests of a batch.  Those that pass validation: with a question,
\* with the question null, without the key.  Those that do not: no
\* media_url or an empty one, an unsupported format, no email or an empty
\* one, a media_url that is a number.
BatchItems ==
    [media_url : {U_mp3}, email : {Email1}, question : {QuestionMapped, None}]
    \cup {[media_url |-> m, email |-> Email1] :
             m \in {U_mp3, U_pdf, None, "", JsonNumber}}
    \cup {[media_url |-> U_mp3, email |-> e] : e \in {None, ""}}

BatchBodies ==
    {[requests |-> requests] :
        requests \in UNION {[1..n -> BatchItems] : n \in 0..MaxBatch}}

\* POST /manual/batch: batch_transcribe up to its first request to the
\* provider.
BatchTranscribe(data, post_oks) ==
    /\ Len(jobs) < MaxJobs
    /\ Called([kind |-> "batch", data |-> data, post_oks |-> post_oks,
               before |-> Len(jobs)])

NextBatch ==
    \/ \E data \in BatchBodies, post_oks \in [1..MaxBatch -> BOOLEAN] :
          BatchTranscribe(data, post_oks)
    \/ Outbound
    \/ \E id \in 1..MaxJobs, transcript \in Transcripts : JobCompletes(id, transcript)
    \/ \E id \in 1..MaxJobs : JobFails(id)

SpecBatch == Init /\ [][NextBatch]_vars

-----------------------------------------------------------------------------
(* The store on its own: update_transcript called, one call at a time, on  *)
(* a sheet that holds rows already.                                        *)

Email3 == "third@example.com"
StoreEmails == {Email1, Email2, Email3}

\* A transcript text, and quality metrics without and with a warning.
Text_ok == <<"O", "k", ".">>
Q_clean == [overall_confidence |-> DoubleOf(95), warnings |-> <<>>]
Q_warn ==
    [overall_confidence |-> DoubleOf(75),
     warnings |-> <<"Low overall confidence score">>]

\* An empty sheet, a sheet with one contact, a sheet on which a contact
\* has two rows.
StoreSheets ==
    InitialSheets
    \cup {[nA |-> 0, E |-> <<>>, cells |-> <<>>],
          [nA |-> 2, E |-> <<Email1, Email1>>, cells |-> <<>>]}

InitStore ==
    /\ cfg \in [api_key : {TRUE}, callback_url : {TRUE}]
    /\ jobs = <<>>
    /\ sheet \in StoreSheets
    /\ req = Idle
    /\ hook = Idle
    /\ stored = {}
    /\ last = NoRequest

\* What the history keeps of the call that returned before this one, when
\* it succeeded without a transport error for an email that had no row: the
\* email and the cells it wrote, those that are new or changed in the sheet
\* against the sheet before it.
Earlier(h) ==
    IF /\ h.kind = "upsert"
       /\ h.ok
       /\ h.fault = "none"
       /\ find_email_row(h.before, h.email, "none") = NoRow
    THEN [kind |-> "append", email |-> h.email,
          wrote |-> {c \in DOMAIN sheet.cells :
                        \/ c \notin DOMAIN h.before.cells
                        \/ h.before.cells[c] # sheet.cells[c]}]
    ELSE NoRequest

\* The call update_transcript(email, question, media_url, transcript,
\* quality_metrics), made on the sheet as it is.
UpsertOf(email, question, media_url, transcript, quality_metrics, fault) ==
    [kind |-> "upsert", email |-> email, question |-> question,
     media_url |-> media_url, transcript |-> transcript,
     quality_metrics |-> quality_metrics, fault |-> fault,
     before |-> sheet, earlier |-> Earlier(last)]

\* update_transcript(email, question, media_url, transcript, quality_metrics)
\* up to its first request to the sheet.
Upsert(email, question, media_url, transcript, quality_metrics, fault) ==
    Called(UpsertOf(email, question, media_url, transcript, quality_metrics,
                    fault))

\* The calls of update_transcript: a transport error and a question without
\* columns are tried with one media URL and one quality object.
StoreCalls ==
    {[email |-> email, question |-> QuestionMapped, media_url |-> media_url,
      quality_metrics |-> quality_metrics, fault |-> "none"] :
        email \in StoreEmails, media_url \in {U_mp3, U_MP4},
        quality_metrics \in {Q_clean, Q_warn}}
    \cup {[email |-> email, question |-> question, media_url |-> U_mp3,
           quality_metrics |-> Q_clean, fault |-> fault] :
              email \in StoreEmails,
              question \in {QuestionMapped, QuestionDefault},
              fault \in StoreFaults}

NextStore ==
    \/ \E c \in StoreCalls :
           Upsert(c.email, c.question, c.media_url, Text_ok, c.quality_metrics,
                  c.fault)
    \/ Outbound

SpecStore == InitStore /\ [][NextStore]_vars

-----------------------------------------------------------------------------
(* Two update_transcript calls in flight at once (two requests handled in  *)
(* parallel).  A call is interleaved with the other at its requests to the *)
(* sheet: the read of column E, the read of column A, the two writes.      *)
(* req.calls[w] is the call of worker w with its log; req.race tells that  *)
(* both calls had read before either wrote.                                *)

Workers == {1, 2}

InitRace ==
    /\ cfg \in [api_key : {TRUE}, callback_url : {TRUE}]
    /\ jobs = <<>>
    /\ sheet \in StoreSheets
    /\ req = [pc |-> "store", calls |-> [w \in Workers |-> Idle],
              race |-> FALSE]
    /\ hook = Idle
    /\ stored = {}
    /\ last = NoRequest

\* The call in the slot is about to write its link cell into a row it
\* appends for the email.
AppendsFor(slot, email) ==
    /\ slot.pc = "run"
    /\ slot.call.email = email
    /\ At("count") \in DOMAIN slot.at
    /\ slot.next.label = At("link")

\* Worker w calls update_transcript, once.
UpsertBegin(w, email, media_url) ==
    /\ req.calls[w].pc = "idle"
    /\ LET started(s) ==
               /\ req' = [req EXCEPT !.calls[w] = s.slot, !.race = FALSE]
               /\ last' = s.last
               /\ stored' = s.stored
       IN  started(Start(UpsertOf(email, QuestionMapped, media_url, Text_ok,
                                  Q_clean, "none")))
    /\ UNCHANGED <<cfg, jobs, sheet, hook>>

\* The call of worker w makes its next request to the sheet.
UpsertRequest(w) ==
    /\ req.calls[w].pc = "run"
    /\ LET stepped(s) ==
               /\ req' = [req EXCEPT
                             !.calls[w] =
                                 IF s.slot = Idle
                                 THEN [pc |-> "done", call |-> req.calls[w].call,
                                       at |-> s.at]
                                 ELSE s.slot,
                             !.race = @ \/ \E v \in Workers \ {w} :
                                 /\ AppendsFor(req.calls[w],
                                               req.calls[w].call.email)
                                 /\ AppendsFor(req.calls[v],
                                               req.calls[w].call.email)]
               /\ sheet' = s.sheet
               /\ last' = s.last
               /\ stored' = s.stored
       IN  stepped(Step(req.calls[w], 0))
    /\ UNCHANGED <<cfg, jobs, hook>>

NextRace ==
    \/ \E w \in Workers, email \in {Email1, Email2}, media_url \in {U_mp3, U_MP4} :
          UpsertBegin(w, email, media_url)
    \/ \E w \in Workers : UpsertRequest(w)

SpecStoreRace == InitRace /\ [][NextRace]_vars

-----------------------------------------------------------------------------
(* Properties of the /webhook handler (under SpecWebhook).                 *)

IsFormEvent(data) == DictGet(data, "event_type") = "form_response"
WebhookAnswered == last.kind = "webhook"
FormEventAnswered == WebhookAnswered /\ IsFormEvent(last.data)

\* The indices of the answers of the event that carry media, in order.
MediaAnswerIndices(data) ==
    SelectSeq([k \in 1..Len(data.contact.answers) |-> k],
              LAMBDA k : IsMediaAnswer(data.contact.answers[k]))

\* C1: every delivery to /webhook (a form_response event, a provider
\* callback or any other body), whatever failed while it was handled, is
\* answered with HTTP 200 and status "processed"; a failure shows only as an
\* entry of the errors list.
C1_WebhookAlwaysProcessed ==
    WebhookAnswered =>
        /\ last.resp.http = 200
        /\ last.resp.body.status = "processed"
        /\ \A i \in DOMAIN last.resp.body.errors :
              "error" \in DOMAIN last.resp.body.errors[i]

\* C1 witness: an exception reached the except clause of the handler and
\* the delivery was answered all the same.
C1_Witness_FailureReported ==
    /\ WebhookAnswered
    /\ last.resp.body.errors # <<>>
    /\ last.resp.body.errors[1].error[1] = "Webhook processing error: "

\* C2 (as stated): a failure while one media-bearing answer is processed
\* never keeps the later answers of the event from being processed, and every
\* error entry names the media_url of the answer that failed.
C2_FailureIsolated ==
    FormEventAnswered =>
        /\ [i \in DOMAIN last.processed |-> last.processed[i].answer]
              = MediaAnswerIndices(last.data)
        /\ \A i \in DOMAIN last.resp.body.errors :
              "media_url" \in DOMAIN last.resp.body.errors[i]

\* C3 (as stated): with the service configured, the form well formed and the
\* provider accepting, an event with N media-bearing answers causes exactly N
\* submissions, one per answer in order, each carrying the answer's media_url
\* and the contact's email.
ProviderAccepts ==
    /\ cfg.api_key
    /\ cfg.callback_url
    /\ last.data.form = F_good
    /\ \A k \in DOMAIN last.oracle : last.oracle[k] = 0
C3_OneSubmissionPerAnswer ==
    (FormEventAnswered /\ ProviderAccepts) =>
        [i \in DOMAIN last.posts |->
            [media_url |-> last.posts[i].media_url,
             email |-> last.posts[i].metadata.email]] =
            [i \in DOMAIN MediaAnswerIndices(last.data) |->
                [media_url |->
                     last.data.contact.answers[MediaAnswerIndices(last.data)[i]].media_url,
                 email |-> last.data.contact.email]]

\* C4 (as stated): an answer comes back as an error only after its
\* submission has been attempted three times.
C4_ErrorAfterThirdAttempt ==
    FormEventAnswered =>
        \A i \in DOMAIN last.processed :
            last.processed[i].reported => last.processed[i].calls = RETRIES

-----------------------------------------------------------------------------
(* Properties of the store invocations (under Spec).                       *)

Upserts == {last.upserts[i] : i \in DOMAIN last.upserts}

\* C5: update_transcript is invoked for a job only when the handler saw the
\* job as completed, the provider holds it as completed and its transcript
\* was obtained; a wait that ended with a failed job, a timeout or an error,
\* and a request that did not wait, invoke no update_transcript.
C5_StoreOnlyCompleted ==
    /\ \A u \in Upserts :
          /\ u.seen = "completed"
          /\ u.job \in DOMAIN jobs
          /\ jobs[u.job].status = "completed"
          /\ FirstElementValue(jobs[u.job].transcript).exc = NoExc
    /\ (last.kind = "manual" /\ last.outcome # "completed") => Upserts = {}
    /\ (\A id \in DOMAIN jobs : jobs[id].status # "completed") => stored = {}

\* C5 witness: a callback for a completed job invoked update_transcript.
C5_Witness_CallbackStored ==
    /\ last.kind = "webhook"
    /\ \E u \in Upserts : u.path = "callback" /\ u.ok

\* C6 (as stated): on the callback path update_transcript receives the
\* email, the question and the media_url the job was submitted with.
C6_CallbackMetadataRoundTrip ==
    \A u \in Upserts :
        u.path = "callback" =>
            /\ u.email = jobs[u.job].metadata.email
            /\ u.question = jobs[u.job].metadata.question
            /\ u.media_url = jobs[u.job].media_url

\* C7 (as stated): whichever completion path stored the result of a job, and
\* however often, the cells stored for it are the same.
C7_PathsConverge ==
    \A a \in stored, b \in stored :
        a.job = b.job => (a.link = b.link /\ a.text = b.text)

\* C8: the transcript handed to update_transcript is the enhanced text of
\* the job's transcript text, and the quality object handed with it holds
\* the overall confidence and the NLP quality score.
C8_StoresEnhancedAndMergedQuality ==
    \A u \in Upserts :
        /\ u.transcript =
              enhance_transcript(FirstElementValue(jobs[u.job].transcript).val).text
        /\ "overall_confidence" \in DOMAIN u.quality_metrics
        /\ "nlp_quality_score" \in DOMAIN u.quality_metrics

\* C8 witness: update_transcript was invoked with a text the enhancement
\* changed.
C8_Witness_EnhancedDiffers ==
    \E u \in Upserts :
        u.transcript # FirstElementValue(jobs[u.job].transcript).val

-----------------------------------------------------------------------------
(* Properties of the synchronous wait (under SpecWait).                    *)

\* The submission was accepted and the request is in the poll loop or in
\* what follows it.
Waiting == req.pc = "run" /\ At("post") \in DOMAIN req.at
WaitEnded ==
    /\ last.kind = "manual"
    /\ last.wait
    /\ last.outcome \notin {"rejected", "submit_error"}

\* C9 (as stated): a wait always ends, and it ends completed, with a
\* job-failed error or with a timeout error.
C9_WaitTerminatesWithOneOutcome ==
    Waiting ~> (/\ req.pc = "idle"
                /\ WaitEnded
                /\ last.outcome \in {"completed", "job_failed", "timeout"})

\* C10 (as stated): counting the sleeps between the polls, a wait ends no
\* later than max_wait_time seconds after polling began (at once for a
\* max_wait_time of zero or less).
C10_HardCeiling ==
    WaitEnded => last.elapsed <= Max(last.max_wait_time, 0)

-----------------------------------------------------------------------------
(* Properties of handle_transcription_job (under SpecClient).              *)

SubmitReturned == last.kind = "submit"
FormatCheck == validate_media_format(last.media_url)

C12_FormatValidatedFirst ==
    (SubmitReturned /\ ~FormatCheck.valid) =>
        /\ last.exc # NoExc
        /\ last.exc.msg = FormatCheck.message

-----------------------------------------------------------------------------
(* The audio answer without a provider credential (under SpecWebhook).     *)

\* C13 (as stated): a form_response event with one audio answer (an .mp3
\* URL, a contact email, a question the form describes), handled with no
\* provider credential configured, is answered with status "processed" and
\* an empty errors list.  No credential configured is no REV_AI_API_KEY in
\* the environment of the service: the key the service uses is the constant
\* of config.py whatever the environment holds.
C13_NoCredentialNoErrors ==
    (/\ FormEventAnswered
     /\ last.data.contact.answers = <<A_audio>>
     /\ last.data.form = F_good) =>
        /\ last.resp.http = 200
        /\ last.resp.body.status = "processed"
        /\ last.resp.body.errors = <<>>

-----------------------------------------------------------------------------
(* Properties of the /manual/batch endpoint (under SpecBatch).             *)

BatchAnswered == last.kind = "batch" /\ last.requests # <<>>

\* C14 (as stated): a batch of N requests is answered with one result entry
\* per request, in request order, total = N and failed = the number of
\* entries with status "error"; an entry of a request that fails validation
\* carries the validation message, an entry without an error carries the id
\* of the provider job created for its media_url, and a failed item does not
\* end the batch.
C14_BatchReportsEveryItem ==
    BatchAnswered =>
        /\ last.resp.http = 200
        /\ LET requests == last.requests
               results == last.resp.body.results
           IN  /\ Len(results) = Len(requests)
               /\ last.resp.body.total = Len(requests)
               /\ last.resp.body.failed =
                      Cardinality({i \in DOMAIN results :
                                      results[i].status = "error"})
               /\ \A i \in DOMAIN requests :
                      /\ results[i].media_url = requests[i].media_url
                      /\ IF validate_request(requests[i]).val # None
                         THEN /\ results[i].status = "error"
                              /\ results[i].error =
                                     validate_request(requests[i]).val
                         ELSE "error" \notin DOMAIN results[i] =>
                                /\ results[i].job_id \in DOMAIN jobs
                                /\ results[i].job_id > last.before
                                /\ jobs[results[i].job_id].media_url =
                                       requests[i].media_url

-----------------------------------------------------------------------------
(* Properties of update_transcript (under SpecStore).                      *)

Upserted == last.kind = "upsert"
NoDuplicateEmails(sh) ==
    \A i \in 1..Len(sh.E), j \in 1..Len(sh.E) : sh.E[i] = sh.E[j] => i = j
RowOf(sh, email) == find_email_row(sh, email, "none")
CellOf(sh, col, row) ==
    IF <<col, row>> \in DOMAIN sh.cells THEN sh.cells[<<col, row>>] ELSE None
RowUsed(sh, row) ==
    row <= Len(sh.E) \/ row <= sh.nA \/ \E c \in DOMAIN sh.cells : c[2] = row

\* C15 (as stated): starting from a sheet with at most one row per email,
\* the sheet keeps at most one row per email; after a successful upsert
\* (no transport error) the email has a row, which holds the link and the
\* text just written; if the email had no row before, that row is one no
\* email and no cell used before.
C15_OneRowPerEmail ==
    (/\ NoDuplicateEmails(sheet)
     /\ Upserted
     /\ last.ok
     /\ last.fault = "none") =>
        /\ RowOf(sheet, last.email) # NoRow
        /\ CellOf(sheet, QUESTION_COLUMN_MAP[last.question].link_col,
                  RowOf(sheet, last.email)) = last.media_url
        /\ (RowOf(last.before, last.email) = NoRow =>
               ~RowUsed(last.before, RowOf(sheet, last.email)))

\* C16 (as stated): when update_transcript returns False nothing was
\* stored: the sheet is what it was before the call.
C16_FalseMeansNothingStored ==
    (Upserted /\ ~last.ok) => sheet = last.before

\* The transport error the call was given struck: the service
\* initialisation and the lookup read are always made, the row-count read
\* when the lookup finds no row, the writes when the question is mapped.
FaultStruck ==
    \/ last.fault \in {"init", "find"}
    \/ last.fault = "count" /\ RowOf(last.before, last.email) = NoRow
    \/ /\ last.fault \in {"link", "text"}
       /\ last.question \in DOMAIN QUESTION_COLUMN_MAP

\* C17 (as stated): a transport error during the call (initialisation,
\* lookup read, row-count read, either write) makes update_transcript
\* return False.
C17_TransportErrorReturnsFalse ==
    (Upserted /\ FaultStruck) => ~last.ok

\* C19 (as stated): when the email has a row and the question is mapped, a
\* successful call leaves the media URL in the link cell and the text in
\* the transcript cell of the first row holding the email, and every other
\* cell as it was.
C19_WritesFirstMatchingRowOnly ==
    (/\ Upserted
     /\ last.ok
     /\ RowOf(last.before, last.email) # NoRow
     /\ last.question \in DOMAIN QUESTION_COLUMN_MAP) =>
        LET row == RowOf(last.before, last.email)
            cols == QUESTION_COLUMN_MAP[last.question]
            written == {<<cols.link_col, row>>, <<cols.transcript_col, row>>}
        IN  /\ CellOf(sheet, cols.link_col, row) = last.media_url
            /\ CellOf(sheet, cols.transcript_col, row) =
                   TranscriptWithNotes(last.transcript, last.quality_metrics)
            /\ sheet.E = last.before.E /\ sheet.nA = last.before.nA
            /\ \A c \in DOMAIN sheet.cells \ written :
                   /\ c \in DOMAIN last.before.cells
                   /\ sheet.cells[c] = last.before.cells[c]

-----------------------------------------------------------------------------
(* Properties of concurrent update_transcript calls (under SpecStoreRace). *)

BothDone == \A w \in Workers : req.calls[w].pc = "done"

\* The call that returned took the append branch; the row it wrote.
Appended(slot) == At("count") \in DOMAIN slot.at
RowWritten(slot) ==
    IF Appended(slot) THEN slot.at[At("count")].seen.nA + 1
    ELSE RowOf(slot.at[At("find")].seen, slot.call.email)

\* C18 (as stated): two calls for the same email without a row, each of
\* which read the sheet before the other wrote, both take the append branch
\* and leave two rows for that email.
C18_RaceLeavesDuplicateRows ==
    (req.race /\ BothDone) =>
        /\ \A w \in Workers : Appended(req.calls[w])
        /\ RowWritten(req.calls[1]) # RowWritten(req.calls[2])

-----------------------------------------------------------------------------
(* Properties of get_transcript_quality (under SpecClient).                *)

\* C20 (as stated): for a completed job whose transcript holds no text
\* element (no monologue, a monologue without elements, punctuation only),
\* with every request answered, get_transcript_quality returns a report
\* with overall_confidence = 0 and total_words = 0.
C20_NoTextScoresZero ==
    (/\ last.kind = "score"
     /\ last.env = NoFault
     /\ last.seen = "completed"
     /\ TextElements(jobs[last.job].transcript) = <<>>) =>
        /\ last.exc = NoExc
        /\ last.val.total_words = 0
        /\ last.val.overall_confidence = ZeroLimbs

\* The positions <<monologue, element>> of the text elements of a
\* transcript, and the sum of the confidences at a set of positions.
TextPositions(t) ==
    {p \in UNION {{<<m, e>> : e \in DOMAIN t[m].elements} : m \in DOMAIN t} :
        t[p[1]].elements[p[2]].type = "text"}
RECURSIVE ConfidenceSum(_, _)
ConfidenceSum(t, ps) ==
    IF ps = {} THEN 0
    ELSE LET p == CHOOSE q \in ps : TRUE
         IN  t[p[1]].elements[p[2]].confidence + ConfidenceSum(t, ps \ {p})

ScoreReported ==
    last.kind = "score" /\ last.seen = "completed" /\ last.exc = NoExc

\* C21 (as stated): in the report of a completed job total_words is the
\* number of text elements over all monologues, low_confidence_count the
\* number of those with a confidence below 0.8 and the length of
\* low_confidence_words (each entry holding the word, its confidence and its
\* timestamp), overall_confidence their mean, quality_rating "good" for a
\* mean above 0.9, "fair" for a mean above 0.8, "poor" otherwise.
C21_ReportCountsTextElements ==
    ScoreReported =>
        LET t == jobs[last.job].transcript
            words == TextPositions(t)
            low == {p \in words : t[p[1]].elements[p[2]].confidence < 80}
            total == ConfidenceSum(t, words)
            n == Cardinality(words)
            r == last.val
        IN  /\ r.total_words = n
            /\ r.low_confidence_count = Cardinality(low)
            /\ Len(r.low_confidence_words) = Cardinality(low)
            /\ \A i \in DOMAIN r.low_confidence_words :
                   \E p \in low :
                       /\ r.low_confidence_words[i].word = t[p[1]].elements[p[2]].value
                       /\ r.low_confidence_words[i].confidence =
                              t[p[1]].elements[p[2]].confidence
                       /\ r.low_confidence_words[i].timestamp = t[p[1]].elements[p[2]].ts
            /\ r.overall_confidence = NearestMean(total, n)
            /\ r.quality_rating =
                   IF total > 90 * n THEN "good"
                   ELSE IF total > 80 * n THEN "fair" ELSE "poor"

\* C22: for a job the provider does not hold as completed the scorer
\* returns a report, not an error, also when a transcript request would
\* fail: the report holds that status, the message and the media-quality
\* report, and none of the confidence fields.
C22_NotReadyIsAReport ==
    (/\ last.kind = "score"
     /\ last.seen \in {"in_progress", "failed"}
     /\ last.env.job) =>
        /\ last.exc = NoExc
        /\ last.val.status = last.seen
        /\ last.val.message = "Transcript not ready yet"
        /\ "media_quality" \in DOMAIN last.val
        /\ DOMAIN last.val \cap {"overall_confidence", "total_words",
                                 "low_confidence_count", "low_confidence_words",
                                 "quality_rating", "warnings"} = {}

\* C22 witness: a job in progress was scored while the transcript request
\* would have failed.
C22_Witness_InProgress ==
    /\ last.kind = "score"
    /\ last.seen = "in_progress"
    /\ ~last.env.qtranscript
    /\ last.exc = NoExc
    /\ last.val.status = "in_progress"

-----------------------------------------------------------------------------
(* The pure functions on their own: format validation, the media quality   *)
(* estimate, the text analysis, the enhancement and the linguistic score,  *)
(* each applied to an input drawn from a bounded set.                      *)

FormatUrls ==
    {U_mp3, U_MP4, U_pdf, U_noext, U_flac, U_txt, U_aac, U_dirdot, U_query,
     U_WAV, U_dot}

\* The text inputs of the analysis.  MaxText bounds the texts enumerated
\* character by character, MaxSentences the texts put together from whole
\* sentences.
MaxText == 4
MaxSentences == 6

TextChars == {"h", "i", "O", " ", ".", "!"}
SmallTexts == UNION {[1..n -> TextChars] : n \in 0..MaxText}

SentenceForms == {<<"h", "i", ".">>, <<"O", "k", "!">>, <<"o", "k">>}
SentenceTexts ==
    UNION {{Join(fs, <<" ">>) : fs \in [1..n -> SentenceForms]} :
              n \in 2..MaxSentences}

\* m times the word a, then n times the word b, then the terminator.
RECURSIVE Repeat(_, _)
Repeat(word, n) == IF n = 0 THEN <<>> ELSE <<word>> \o Repeat(word, n - 1)
RunText(a, m, b, n, terminator) ==
    Join(Repeat(a, m) \o Repeat(b, n), <<" ">>) \o terminator
LongTexts ==
    {RunText(a, m, <<"o", "k">>, total - m, terminator) :
        a \in {<<"h", "i">>, <<"H", "i">>, <<"i">>},
        m \in {0, 1, 2, 3, 5, 6},
        total \in {9, 10, 11, 19, 20, 21, 29, 30, 40, 41, 49, 50, 51},
        terminator \in {<<>>, <<".">>}}

\* A text of m + n words with two blanks after its first word: m times the
\* word a, then n times the word b, then the terminator.
WideText(a, m, b, n, terminator) ==
    a \o <<" ", " ">> \o RunText(a, m - 1, b, n, terminator)
WideTexts ==
    {WideText(<<"i">>, total - n, <<"o", "k">>, n, <<".">>) :
        total \in {8, 9, 19, 20}, n \in {0, 1, 2}}

\* Twelve distinct words, none of them a stop word; the first k of them once
\* each, then the last of these another e times.
DistinctWords ==
    <<<<"h", "i">>, <<"o", "k">>, <<"h", "o">>, <<"o", "h">>, <<"k", "o">>,
      <<"h", "h">>, <<"o", "o">>, <<"k", "k">>, <<"k", "h">>, <<"h", "k">>,
      <<"o", "i">>, <<"k", "i">>>>
ManyWordTexts ==
    {Join(SubSeq(DistinctWords, 1, k) \o Repeat(DistinctWords[k], e), <<" ">>)
         \o <<".">> : k \in {9, 10, 11, 12}, e \in {0, 1, 2}}

AnalyzedTexts ==
    SmallTexts \cup SentenceTexts \cup LongTexts \cup ManyWordTexts
        \cup WideTexts
EnhancedTexts == SmallTexts \cup SentenceTexts

\* The penalties of calculate_quality_score in tenths: the number of quality
\* issues, the short-response penalty and the sentence-structure penalty.
Penalties(analysis) ==
    LET m == analysis.metrics
    IN  <<Len(analysis.quality_issues),
          IF m.word_count < 20 THEN 2 ELSE IF m.word_count < 50 THEN 1 ELSE 0,
          IF m.sentence_count = 0 THEN 3
          ELSE IF m.word_count > 40 * m.sentence_count THEN 2 ELSE 0>>

\* The score is a binary float: 1.0 - issues * 0.1 - 0.2 - 0.3 is evaluated
\* left to right in IEEE-754 doubles and need not be the double nearest to
\* the decimal result.  The penalties (up to 12 issues) for which the
\* returned double lies above, and below, the double written k/10 for the
\* decimal result k tenths.
RoundsAbove ==
    {<<0, 1, 3>>, <<0, 2, 2>>, <<1, 0, 3>>, <<1, 1, 2>>, <<2, 0, 2>>,
     <<2, 1, 0>>, <<2, 1, 3>>, <<2, 2, 0>>, <<2, 2, 2>>, <<2, 2, 3>>,
     <<5, 1, 3>>}
RoundsBelow ==
    {<<1, 2, 2>>, <<1, 2, 3>>, <<3, 0, 2>>, <<3, 0, 3>>, <<3, 1, 2>>,
     <<3, 2, 0>>, <<3, 2, 2>>, <<3, 2, 3>>, <<4, 0, 2>>, <<4, 2, 0>>,
     <<4, 2, 2>>, <<4, 2, 3>>, <<5, 2, 2>>, <<6, 0, 0>>, <<6, 0, 2>>,
     <<6, 0, 3>>, <<6, 1, 0>>, <<6, 1, 2>>, <<6, 2, 0>>, <<7, 0, 0>>,
     <<7, 0, 2>>, <<7, 1, 0>>, <<7, 2, 0>>, <<8, 0, 0>>, <<8, 1, 0>>,
     <<9, 0, 0>>}

\* -1, 0 or 1: where the returned double lies relative to the double of
\* calculate_quality_score(analysis) tenths.
ScoreRounding(analysis) ==
    IF Penalties(analysis) \in RoundsAbove THEN 1
    ELSE IF Penalties(analysis) \in RoundsBelow THEN -1 ELSE 0

\* A call of one of the functions is pending in req; the step that makes it
\* records the argument and what was returned in last.
Pending(fn) == req.pc = "call" /\ req.fn = fn

\* analyze_transcript_content(text), then calculate_quality_score
Analyze ==
    /\ Pending("analyze")
    /\ LET scored(analysis) ==
               last' = [kind |-> "analyze", text |-> req.text, val |-> analysis,
                        score |-> calculate_quality_score(analysis),
                        rounding |-> ScoreRounding(analysis)]
       IN  scored(analyze_transcript_content(req.text))
    /\ req' = Idle
    /\ UNCHANGED <<cfg, jobs, sheet, hook, stored>>

\* enhance_transcript(text), and enhance_transcript of what it returned
Enhance ==
    /\ Pending("enhance")
    /\ LET twice(e) ==
               last' = [kind |-> "enhance", text |-> req.text, val |-> e,
                        again |-> enhance_transcript(e.text)]
       IN  twice(enhance_transcript(req.text))
    /\ req' = Idle
    /\ UNCHANGED <<cfg, jobs, sheet, hook, stored>>

\* validate_media_format(media_url)
Validate ==
    /\ Pending("validate")
    /\ last' = [kind |-> "validate", media_url |-> req.media_url,
                val |-> validate_media_format(req.media_url)]
    /\ req' = Idle
    /\ UNCHANGED <<cfg, jobs, sheet, hook, stored>>

\* The media URLs and the content lengths the estimate is applied to: the
\* lengths at and just below each threshold (kbps * 22500 bytes).
MediaUrls == {U_mp3, U_MP4, U_aac, U_pdf, U_flac, U_noext}
ContentLengths ==
    {0, 1439999, 1440000, 2879999, 2880000, 4319999, 4320000, 5759999,
     5760000, 25379999, 25380000, 49319999, 49320000}
HeadOutcomes == HeadFailures \cup {HeadOk(n) : n \in ContentLengths}

\* analyze_media_quality(url, headers)
Estimate ==
    /\ Pending("estimate")
    /\ last' = [kind |-> "estimate", url |-> req.url, head |-> req.head,
                val |-> analyze_media_quality(req.url, req.head)]
    /\ req' = Idle
    /\ UNCHANGED <<cfg, jobs, sheet, hook, stored>>

AnalysisCalls ==
    {[pc |-> "call", fn |-> "validate", media_url |-> u] : u \in FormatUrls}
    \cup {[pc |-> "call", fn |-> "analyze", text |-> t] : t \in AnalyzedTexts}
    \cup {[pc |-> "call", fn |-> "enhance", text |-> t] : t \in EnhancedTexts}
    \cup {[pc |-> "call", fn |-> "estimate", url |-> u, head |-> h] :
              u \in MediaUrls, h \in HeadOutcomes}

InitAnalysis ==
    /\ cfg \in [api_key : {TRUE}, callback_url : {TRUE}]
    /\ jobs = <<>>
    /\ sheet \in InitialSheets
    /\ req \in AnalysisCalls
    /\ hook = Idle
    /\ stored = {}
    /\ last = NoRequest

NextAnalysis == Validate \/ Analyze \/ Enhance \/ Estimate

SpecAnalysis == InitAnalysis /\ [][NextAnalysis]_vars

-----------------------------------------------------------------------------
(* C23 *)

\* What follows the last dot of the URL's path, lowercased: the empty string
\* when the path ends in a dot, None when it holds no dot.  The host, the
\* query string and the fragment are not part of the path.
PathSuffix(url) ==
    CASE url \in {U_mp3} -> "mp3"
      [] url \in {U_MP4} -> "mp4"
      [] url \in {U_pdf} -> "pdf"
      [] url \in {U_flac} -> "flac"
      [] url \in {U_txt} -> "txt"
      [] url \in {U_aac} -> "aac"
      [] url \in {U_WAV} -> "wav"
      [] url \in {U_dirdot} -> "2/audio"
      [] url \in {U_dot} -> ""
      [] url \in {U_noext, U_query} -> None

Validated == last.kind = "validate"

\* C23 as stated: validate returns valid exactly when the lowercased
\* extension of the URL's path is in the supported-format set, and for every
\* other URL, one without an extension included, it returns invalid with a
\* message naming the rejected extension.
C23_InvalidNamesExtension ==
    Validated =>
        /\ last.val.valid <=> PathSuffix(last.media_url) \in SUPPORTED_AUDIO_FORMATS
        /\ ~last.val.valid =>
              /\ last.val.message = "Unsupported file format"
              /\ last.val.ext # None

\* C23, amended: validate returns valid exactly when the lowercased text after
\* the last dot of the URL's path is in the supported-format set; it returns
\* invalid with a message naming that text when the text is not empty and not
\* supported, and invalid with the message that the format could not be
\* determined, naming nothing, when the path holds no dot or ends in a dot.
C23_ValidIffSupportedSuffix ==
    Validated =>
        LET suffix == PathSuffix(last.media_url)
        IN  /\ last.val.valid <=> suffix \in SUPPORTED_AUDIO_FORMATS
            /\ last.val.valid => last.val.message = "File format is supported"
            /\ (~last.val.valid /\ suffix \notin {None, ""}) =>
                  /\ last.val.message = "Unsupported file format"
                  /\ last.val.ext = suffix
            /\ suffix \in {None, ""} =>
                  /\ ~last.val.valid
                  /\ last.val.message = "Could not determine file format"
                  /\ last.val.ext = None

\* An upper-case extension behind a dotted directory, before a fragment, is
\* accepted.
C23_Witness_UpperCaseAccepted ==
    /\ Validated
    /\ last.media_url = U_WAV
    /\ last.val.valid
    /\ last.val.ext = "wav"

-----------------------------------------------------------------------------
(* C24 *)

Analyzed == last.kind = "analyze"

\* The decimal value of the score in tenths, before the clamp, from the
\* counts of the analysis.
DecimalScore(analysis) ==
    10 - Len(analysis.quality_issues)
       - (IF analysis.metrics.word_count < 20 THEN 2
          ELSE IF analysis.metrics.word_count < 50 THEN 1 ELSE 0)
       - (IF analysis.metrics.sentence_count = 0 THEN 3
          ELSE IF analysis.metrics.word_count
                     > 40 * analysis.metrics.sentence_count THEN 2
          ELSE 0)

\* The words of a text: its tokens that are neither punctuation marks nor
\* whitespace.
WordsOf(text) ==
    SelectSeq(Tokens(text), LAMBDA tok : ~IsPunct(tok) /\ Strip(tok) # <<>>)

\* C24: the linguistic score is 1.0 minus 0.1 per quality issue, minus 0.2 for
\* a word count below 20 (else 0.1 below 50), minus 0.3 for zero sentences
\* (else 0.2 for more than 40 words per sentence), clamped to [0, 1]; it lies
\* in [0, 1], and for every text of fewer than 10 words analyze followed by
\* score yields at most 0.7.
C24_ScoreIsClampedPenaltySum ==
    Analyzed =>
        /\ last.score = Max(0, Min(10, DecimalScore(last.val)))
        /\ last.score \in 0..10
        /\ last.score = 0 => last.rounding >= 0
        /\ last.score = 10 => last.rounding <= 0
        /\ Len(WordsOf(last.text)) < 10 =>
              \/ last.score < 7
              \/ last.score = 7 /\ last.rounding <= 0

-----------------------------------------------------------------------------
(* C25 *)

\* The distinct case-folded words of a text and the number of occurrences of
\* one of them.
FoldedWords(words) == {LowerText(words[i]) : i \in 1..Len(words)}
Occurrences(words, w) ==
    Cardinality({i \in 1..Len(words) : LowerText(words[i]) = w})

\* The number of repetition issues the analysis reports for the word w, and
\* the words the repetition issues name.
IssuesNaming(analysis, w) ==
    Cardinality({i \in 1..Len(analysis.quality_issues) :
        analysis.quality_issues[i] = <<"Frequent repetition of word", w>>})
NamedWords(analysis) ==
    {analysis.quality_issues[i][2] : i \in
        {j \in 1..Len(analysis.quality_issues) :
            analysis.quality_issues[j][1] = "Frequent repetition of word"}}

\* C25: analyze reports exactly one repetition issue for each distinct
\* case-folded token of the frequency table (a word that is no stop word)
\* whose number of occurrences exceeds 10% of the number of words of the
\* text, and none for any other token.
C25_OneIssuePerFrequentToken ==
    Analyzed =>
        LET counted(words) ==
                /\ \A w \in FoldedWords(words) :
                      IssuesNaming(last.val, w)
                          = IF ~IsStop(w) /\ 10 * Occurrences(words, w) > Len(words)
                            THEN 1 ELSE 0
                /\ NamedWords(last.val) \subseteq FoldedWords(words)
        IN  counted(WordsOf(last.text))

-----------------------------------------------------------------------------
(* C26 *)

Enhanced == last.kind = "enhance"

StartsNonLowercase(sentences) ==
    \A i \in 1..Len(sentences) : ~IsLower(sentences[i].text[1])

\* C26: in the text enhance returns, every detected sentence begins with a
\* character that is not lowercase, whatever the number of sentences.
C26_SentencesStartNonLowercase ==
    Enhanced => StartsNonLowercase(Sents(last.val.text))

-----------------------------------------------------------------------------
(* C27 *)

EndsWith(text, chars) ==
    Strip(text) # <<>> /\ Strip(text)[Len(Strip(text))] \in chars

PunctuationWarned ==
    last.val.warnings = <<"Added missing sentence-ending punctuation">>

\* C27: for every text that is not blank, of any number of sentences, the
\* text enhance returns ends with one of . ! ?, and the missing-punctuation
\* warning is returned only together with a text that ends with the appended
\* full stop, and is the only warning.
C27_ReturnedTextIsPunctuated ==
    (Enhanced /\ Strip(last.text) # <<>>) =>
        /\ EndsWith(last.val.text, TerminalPunct)
        /\ last.val.warnings # <<>> =>
              PunctuationWarned /\ EndsWith(last.val.text, {"."})

-----------------------------------------------------------------------------
(* C28 *)

\* A text of one to five sentences that all start with a capital letter, and
\* that ends with one of . ! ?
IsNormalized(text) ==
    /\ Len(Sents(text)) \in 1..5
    /\ \A i \in 1..Len(Sents(text)) : Sents(text)[i].text[1] \in UpperChars
    /\ EndsWith(text, TerminalPunct)

\* C28: for a text of at most 5 sentences whose sentences all start
\* capitalized and that ends with . ! or ?, enhance returns the text
\* unchanged without a warning, and enhance applied to what it returned
\* returns it unchanged without a warning again.
C28_NormalizedTextIsFixedPoint ==
    (Enhanced /\ IsNormalized(last.text)) =>
        /\ last.val.text = last.text
        /\ last.val.warnings = <<>>
        /\ last.again.text = last.text
        /\ last.again.warnings = <<>>

\* Five capitalized sentences ending with an exclamation mark come back as
\* they are.
C28_Witness_FiveSentencesUnchanged ==
    /\ Enhanced
    /\ last.text = Join(Repeat(<<"O", "k", "!">>, 5), <<" ">>)
    /\ Len(Sents(last.text)) = 5
    /\ IsNormalized(last.text)
    /\ last.val = [text |-> last.text, warnings |-> <<>>]
    /\ last.again = last.val

-----------------------------------------------------------------------------
(* C29 *)

Estimated == last.kind = "estimate"

\* The formats with a threshold table, by the extension of the URL, with the
\* high and medium thresholds in kbps (for video the sums of the audio and
\* video components).
TableOf(url) ==
    CASE get_file_extension(url) = "mp3" -> [high |-> 192, medium |-> 128]
      [] get_file_extension(url) = "aac" -> [high |-> 256, medium |-> 192]
      [] get_file_extension(url) = "mp4" -> [high |-> 2192, medium |-> 1128]
      [] OTHER -> [high |-> 0, medium |-> 0]
HasTable(url) == get_file_extension(url) \in {"mp3", "aac", "mp4"}

\* The tier for content_length bytes: the bitrate is content_length * 8 /
\* (180 * 1000) kbps.
TierOf(url, content_length) ==
    IF content_length * 8 >= TableOf(url).high * 180 * 1000 THEN "high"
    ELSE IF content_length * 8 >= TableOf(url).medium * 180 * 1000 THEN "medium"
    ELSE "low"

NamesMinimumBitrate(warnings) ==
    \E i \in 1..Len(warnings) :
        warnings[i] \in {"Recommended minimum bitrate (audio)",
                         "Recommended minimum bitrate (audio, video)"}

\* C29: for a media URL of a format with a threshold table (mp3, aac, mp4)
\* and a probe that succeeds, the tier is high, medium or low by the
\* estimated bitrate against the thresholds, never unknown, and a warning
\* naming the recommended minimum bitrate is emitted exactly when the tier is
\* low.
C29_TierFollowsThresholds ==
    (Estimated /\ HasTable(last.url) /\ ~ProbeFails(last.head)) =>
        /\ last.val.quality_level = TierOf(last.url, last.head.content_length)
        /\ NamesMinimumBitrate(last.val.warnings)
              <=> last.val.quality_level = "low"

-----------------------------------------------------------------------------
(* C30 *)

\* What the scorer returns for the same job when the probe succeeds.
ScoreWithProbe(job_id, env) ==
    get_transcript_quality(job_id, [env EXCEPT !.head = HeadOk(0)], NoCalls)

\* C30: a failure of the media probe (transport error, error status,
\* malformed content-length) is never propagated: the estimate is a report
\* of tier unknown with the warning that the media quality could not be
\* analyzed, and the scorer ends as it does with a successful probe, with
\* that estimate attached to the report of a job that is not completed.
C30_ProbeFailureIsAbsorbed ==
    (/\ last.kind = "score"
     /\ last.env.job
     /\ last.env.head \in HeadFailures
     \* the job is still as the call saw it
     /\ last.job \in DOMAIN jobs
     /\ jobs[last.job].status = last.seen) =>
        LET absorbed(estimate, reference) ==
                /\ estimate = [quality_level |-> "unknown",
                               warning |-> "Could not analyze media quality"]
                /\ last.exc = reference.exc
                /\ last.seen # "completed" =>
                      /\ last.exc = NoExc
                      /\ last.val.media_quality = estimate
                /\ last.seen = "completed" => last.val = reference.val
        IN  absorbed(analyze_media_quality(jobs[last.job].media_url, last.env.head),
                     ScoreWithProbe(last.job, last.env))

\* An error status of the media host while the job is in progress: the
\* report is returned with the unknown tier.
C30_Witness_ErrorStatusInProgress ==
    /\ last.kind = "score"
    /\ last.seen = "in_progress"
    /\ last.env.head = HeadStatus(404)
    /\ last.exc = NoExc
    /\ last.val.media_quality.quality_level = "unknown"

-----------------------------------------------------------------------------
(* C31 *)

\* The values of the text elements of a transcript, over all monologues and
\* in order, case-folded.
TextValues(transcript) ==
    [i \in 1..Len(TextElements(transcript)) |->
        LowerText(TextElements(transcript)[i].value)]

\* The positions of text from which the characters of value follow.
OccursAt(text, value, p) ==
    /\ p + Len(value) - 1 <= Len(text)
    /\ \A k \in 1..Len(value) : text[p + k - 1] = value[k]

\* Every value occurs in text, each after the one before it.
RECURSIVE ContainsInOrder(_, _, _)
ContainsInOrder(text, values, from) ==
    IF values = <<>> THEN TRUE
    ELSE LET at == {p \in from..(Len(text) + 1) : OccursAt(text, Head(values), p)}
         IN  /\ at # {}
             /\ ContainsInOrder(text, Tail(values),
                    (CHOOSE p \in at : \A q \in at : p <= q) + Len(Head(values)))

\* C31: the text analyzed, enhanced and stored for a completed job contains
\* every text element of the job's transcript, over all monologues and in
\* order.
C31_StoredTextHasEveryElement ==
    \A u \in Upserts :
        ContainsInOrder(LowerText(u.transcript),
                        TextValues(jobs[u.job].transcript), 1)

-----------------------------------------------------------------------------
(* C32 *)

\* An upsert that succeeded without a transport error for an email that had
\* no row, as the history record h of the call tells.
AppendedFor(h) ==
    /\ h.kind = "upsert"
    /\ h.ok
    /\ h.fault = "none"
    /\ RowOf(h.before, h.email) = NoRow

\* C32: of two successful upserts, one after the other, for two different
\* emails that both had no row, the later one overwrites no cell the
\* earlier one wrote.
C32_LaterAppendKeepsEarlierCells ==
    (/\ AppendedFor(last)
     /\ last.earlier.kind = "append"
     /\ last.email # last.earlier.email) =>
        \A c \in last.earlier.wrote :
            sheet.cells[c] = last.before.cells[c]

-----------------------------------------------------------------------------
(* C33 *)

\* The text without its surrounding blanks and without the case of its
\* letters.
Folded(text) == LowerText(Strip(text))

\* C33: for a text of at most 5 sentences, what enhance returns differs from
\* the text only in the case of letters and in a full stop appended at the
\* end (surrounding blanks aside), and has as many sentences as the text:
\* no sentence is dropped and none is reordered, also when the first
\* sentence starts lowercase.
C33_OnlyCaseAndFinalStopChange ==
    (Enhanced /\ Len(Sents(last.text)) <= 5) =>
        /\ Folded(last.val.text) \in
               {Folded(last.text), Folded(last.text) \o <<".">>}
        /\ Len(Sents(last.val.text)) = Len(Sents(last.text))

-----------------------------------------------------------------------------
(* C34 *)

\* The URLs of the transcription provider's API.
ProviderUrls == {JobUrl, TranscriptUrl}

\* C34: every request of the scorer that carries the provider's bearer
\* credential (the Authorization header) goes to the provider's API; the
\* probe of the media URL never carries it.
C34_BearerOnlyToProvider ==
    last.kind = "score" =>
        \A i \in 1..Len(last.requests) :
            "Authorization" \in last.requests[i].headers =>
                last.requests[i].url \in ProviderUrls

-----------------------------------------------------------------------------
(* The retry decorator on its own: a call of a function wrapped by         *)
(* retry_with_backoff(retries, backoff_in_seconds) is pending in req with  *)
(* the outcomes its invocations would have, and the wrapper runs once.     *)

MaxRetries == 4
Backoffs == {1, 2, 3}

\* The k-th invocation returns a value, or raises an exception, that
\* names k.
Ordinals == <<"1st", "2nd", "3rd", "4th", "5th", "6th", "7th", "8th">>
Returns(k) == [exc |-> NoExc, val |-> Ordinals[k]]
Raises(k) == [exc |-> Exc("Exception", Ordinals[k]), val |-> None]

RetryCallsOf(n) ==
    {[pc |-> "call", fn |-> "wrapper", retries |-> n, backoff_in_seconds |-> b,
      outcomes |-> [k \in 1..(n + 1) |->
                       IF k \in failing THEN Raises(k) ELSE Returns(k)]] :
        b \in Backoffs, failing \in SUBSET (1..(n + 1))}
RetryCalls == UNION {RetryCallsOf(n) : n \in 1..MaxRetries}

InitRetry ==
    /\ cfg \in Configurations
    /\ jobs = <<>>
    /\ sheet \in InitialSheets
    /\ req \in RetryCalls
    /\ hook = Idle
    /\ stored = {}
    /\ last = NoRequest

\* wrapper(*args, **kwargs) up to its first sleep.
Wrapper ==
    /\ Pending("wrapper")
    /\ LET started(s) ==
               /\ req' = s.slot
               /\ last' = s.last
               /\ stored' = s.stored
       IN  started(Start([kind |-> "wrapper", retries |-> req.retries,
                          backoff_in_seconds |-> req.backoff_in_seconds,
                          outcomes |-> req.outcomes]))
    /\ UNCHANGED <<cfg, jobs, sheet, hook>>

NextRetry == Wrapper \/ BackoffSleep

SpecRetry == InitRetry /\ [][NextRetry]_vars

-----------------------------------------------------------------------------
(* C36 *)

Wrapped == last.kind = "wrapper"

\* The invocation that ends the loop: the first that succeeds among the
\* first n, the n-th when they all fail.
EndingInvocation(n, outcomes) ==
    LET succeed == {k \in 1..n : outcomes[k].exc = NoExc}
    IN  IF succeed = {} THEN n
        ELSE CHOOSE k \in succeed : \A j \in succeed : k <= j

\* C36: a function wrapped by retry_with_backoff(retries=n,
\* backoff_in_seconds=b), n >= 1, is invoked at most n times; the first
\* successful result is returned with no further invocation; the wait after
\* the i-th failed invocation, i = 1..n-1, is b*2^(i-1) seconds; no wait
\* follows the n-th failure, whose exception is re-raised to the caller.
C36_RetrySchedule ==
    Wrapped =>
        LET n == last.retries
            b == last.backoff_in_seconds
            f == EndingInvocation(n, last.outcomes)
        IN  /\ last.val.calls = f
            /\ last.val.calls <= n
            /\ last.val.result = last.outcomes[f]
            /\ last.val.slept = [i \in 1..(f - 1) |-> b * 2^(i - 1)]
            /\ Len(last.val.slept) <= n - 1

\* Three failures under retries=3 and the default backoff: waits of 1 s and
\* 2 s, three invocations, and the third exception comes out.
C36_Witness_ThirdFailureRaised ==
    /\ Wrapped
    /\ last.retries = 3
    /\ last.backoff_in_seconds = 1
    /\ \A k \in 1..3 : last.outcomes[k].exc # NoExc
    /\ last.val.calls = 3
    /\ last.val.slept = <<1, 2>>
    /\ last.val.result = Raises(3)

====
